---- MODULE Spec2Model ----
\* A model of the core of trevday/rust-raytracer: the AABB slab test, the SAH
\* bounding volume hierarchy and its traversal, the recursive path integrator
\* and the ticket scheduler of main.rs.
\*
\* f32 values are modelled as exact extended rationals <<n, d>>: d > 0 is the
\* finite value n/d, <<1, 0>> is +inf, <<-1, 0>> is -inf and <<0, 0>> is NaN,
\* with the IEEE-754 rules for comparisons with NaN, for x * inf, 0 * inf and
\* x / 0.  Rounding is not modelled.
EXTENDS Integers, Sequences, FiniteSets, TLC

VARIABLES
    \* ---- inputs of one aggregate / box query
    ray, t_min, t_max,
    \* ---- AABB::intersect, one axis at a time
    box, ipc, t_min_temp, t_max_temp, iresult,
    \* ---- new_bvh and the two Aggregate::hit implementations
    scene, bvh, bpc, list_result, to_explore, to_explore_count,
    \* ---- history: the node indices BVH::hit has popped so far
    popped,
    modified_t_max, hit_shape, bvh_result,
    \* ---- one Shape::hit on its own: position, the shape, the ln of the
    \* random number it drew and its answer
    spc, hit_query, hit_ln_xi, shape_result,
    \* ---- Matrix4::inverse and Sphere::new: position, the matrix asked, the
    \* two working matrices, the column, the rows swapped in as pivots
    \* (history), the result of inverse and the result of Sphere::new
    inv_pc, inv_self, inv_temp, inv_res, inv_col, inv_pivots, inverse_result,
    sphere_new_result,
    \* ---- thread_work, from a ticket to camera.get_ray: position, the
    \* ticket, the unsigned difference res_y - y and the coordinates u and v
    cam_pc, cam_ticket, cam_sub, cam_u, cam_v,
    \* ---- aggregate::trace: the call being run and its suspended callers
    tpc, tdepth, tstack, tvalue, tcalls,
    \* ---- what the running call of trace found: the aggregate's answer and
    \* the material's, and whether scatter was called
    tquery,
    \* ---- the scene's important-samples PDF and the calls trace made on
    \* it and on the material's PDF
    important_samples, pdf_calls,
    \* ---- main: the command line and the files it names (the thread-count
    \* argument, the scene file, the output path) and the output file
    thread_arg, scene_file, out_path, out_file,
    \* ---- main: the scene's logistics and the thread count
    res_x, res_y, samples, num_threads,
    \* ---- main: position of the main thread, threads spawned and joined,
    \* the counters <<x, y, s>> of the loops that fill the queue
    mpc, spawned, joined, fill,
    \* ---- the mpsc channel: tickets in flight, whether tx was dropped
    queue, tx_dropped,
    \* ---- holders of the three mutexes (rx, colors, progress_tracker)
    rx_lock, colors_lock, progress_lock,
    \* ---- thread_work of each thread: position, ticket, traced colour and
    \* the accumulator slot read under the colors lock
    wpc, wticket, wcolor, wslot,
    \* ---- shared data: accumulator, progress tracker, standard output, bytes
    colors, progress, stdout, data,
    \* ---- history: tickets sent, receptions of each sent ticket, and the
    \* trace results of each pixel
    sent_log, recv_count, traced

queryVars == <<ray, t_min, t_max>>
aabbVars == <<box, ipc, t_min_temp, t_max_temp, iresult>>
bvhVars == <<scene, bvh, bpc, list_result, to_explore, to_explore_count, popped,
             modified_t_max, hit_shape, bvh_result>>
cameraVars == <<cam_pc, cam_ticket, cam_sub, cam_u, cam_v>>
matrixVars ==
    <<inv_pc, inv_self, inv_temp, inv_res, inv_col, inv_pivots,
      inverse_result, sphere_new_result>>
shapeVars == <<spc, hit_query, hit_ln_xi, shape_result, matrixVars>>
traceVars == <<tpc, tdepth, tstack, tvalue, tcalls, tquery, important_samples,
               pdf_calls>>
loadVars == <<thread_arg, scene_file, out_path, out_file>>
logisticsVars == <<res_x, res_y, samples, num_threads>>
mainVars == <<mpc, spawned, joined, fill>>
channelVars == <<queue, tx_dropped>>
lockVars == <<rx_lock, colors_lock, progress_lock>>
workerVars == <<wpc, wticket, wcolor, wslot>>
sharedVars == <<colors, progress, stdout, data>>
historyVars == <<sent_log, recv_count, traced>>
schedVars == <<loadVars, logisticsVars, mainVars, channelVars, lockVars, workerVars,
               sharedVars, historyVars>>
vars == <<queryVars, aabbVars, bvhVars, shapeVars, cameraVars, traceVars, schedVars>>

\* ------------------------------------------------------------------ bounds
\* Largest box extent and ray-origin offset of the AABB specification.
MaxExtent == 1
\* Largest denominator of the parameters t the box claims are tested at.
MaxTDen == 2

\* --------------------------------------------------- f32 as extended rationals
Axes == {1, 2, 3}

Abs(x) == IF x < 0 THEN -x ELSE x

Sign(x) == IF x < 0 THEN -1 ELSE IF x > 0 THEN 1 ELSE 0

RECURSIVE Gcd(_, _)
Gcd(a, b) == IF b = 0 THEN a ELSE Gcd(b, a % b)

\* Lowest terms; infinities and NaN keep their signs.
Norm(a) ==
    IF a[2] = 0 THEN <<Sign(a[1]), 0>>
    ELSE LET g == Gcd(Abs(a[1]), a[2]) IN <<a[1] \div g, a[2] \div g>>

FVal(n) == <<n, 1>>
PInf == <<1, 0>>
NInf == <<-1, 0>>
NaN == <<0, 0>>
IsNaN(a) == a[1] = 0 /\ a[2] = 0
IsFinite(a) == a[2] > 0

\* a < b; false when either side is NaN.
FLt(a, b) ==
    /\ ~IsNaN(a)
    /\ ~IsNaN(b)
    /\ IF a[2] = 0 /\ b[2] = 0 THEN a[1] < b[1] ELSE a[1] * b[2] < b[1] * a[2]

FGt(a, b) == FLt(b, a)

\* a <= b; false when either side is NaN.
FLe(a, b) == ~IsNaN(a) /\ ~IsNaN(b) /\ ~FLt(b, a)

FGe(a, b) == FLe(b, a)

FEq(a, b) == FLe(a, b) /\ FLe(b, a)

\* a * b: 0 * inf = NaN, x * inf = +-inf.
FMul(a, b) == Norm(<<a[1] * b[1], a[2] * b[2]>>)

\* a + b: inf + -inf = NaN.
FAdd(a, b) ==
    IF IsNaN(a) \/ IsNaN(b) THEN NaN
    ELSE IF a[2] = 0 /\ b[2] = 0 THEN (IF a[1] = b[1] THEN a ELSE NaN)
    ELSE IF a[2] = 0 THEN a
    ELSE IF b[2] = 0 THEN b
    ELSE Norm(<<a[1] * b[2] + b[1] * a[2], a[2] * b[2]>>)

\* n / d for integers n and d, where a zero d carries the sign negz says:
\* x / +0 = sign(x) * inf, x / -0 = -sign(x) * inf, 0 / 0 = NaN.
FDivInt(n, d, negz) ==
    IF d = 0 THEN <<(IF negz THEN -Sign(n) ELSE Sign(n)), 0>>
    ELSE Norm(<<n * Sign(d), Abs(d)>>)

\* ------------------------------------------------------------------- AABB
\* An AABB is [min |-> <<x, y, z>>, max |-> <<x, y, z>>].
AABB_new(mn, mx) == [min |-> mn, max |-> mx]

Point3_min(v1, v2) == [a \in Axes |-> IF v1[a] < v2[a] THEN v1[a] ELSE v2[a]]

Point3_max(v1, v2) == [a \in Axes |-> IF v1[a] > v2[a] THEN v1[a] ELSE v2[a]]

AABB_new_empty == AABB_new(<<0, 0, 0>>, <<0, 0, 0>>)

AABB_union(box1, box2) ==
    AABB_new(Point3_min(box1.min, box2.min), Point3_max(box1.max, box2.max))

AABB_union_point(box1, point) ==
    AABB_new(Point3_min(box1.min, point), Point3_max(box1.max, point))

\* intersect_helper without the swap for a negative inverse direction.
intersect_helper_NoSwap(b, r, tmin, tmax, axis) ==
    LET t0 == FDivInt(b.min[axis] - r.origin[axis], r.dir[axis], r.negz)
        t1 == FDivInt(b.max[axis] - r.origin[axis], r.dir[axis], r.negz)
    IN  <<IF FGt(t0, tmin) THEN t0 ELSE tmin, IF FLt(t1, tmin) THEN t1 ELSE tmax>>

\* intersect_helper: 1 / dir[axis] is +-inf for a zero direction, so
\* (bound - origin) * inverse_direction is computed here as the quotient
\* (bound - origin) / dir[axis] with the IEEE results for a zero divisor.
intersect_helper(b, r, tmin, tmax, axis) ==
    LET inverse_direction == FDivInt(1, r.dir[axis], r.negz)
        a0 == FDivInt(b.min[axis] - r.origin[axis], r.dir[axis], r.negz)
        a1 == FDivInt(b.max[axis] - r.origin[axis], r.dir[axis], r.negz)
        swap == FLt(inverse_direction, FVal(0))
        t0 == IF swap THEN a1 ELSE a0
        t1 == IF swap THEN a0 ELSE a1
    IN  <<IF FGt(t0, tmin) THEN t0 ELSE tmin, IF FLt(t1, tmin) THEN t1 ELSE tmax>>

\* AABB::intersect: X, then Y, then Z, returning false as soon as the running
\* interval has t_max <= t_min.
intersect(b, r, tmin, tmax) ==
    LET x == intersect_helper(b, r, tmin, tmax, 1)
    IN  IF FLe(x[2], x[1]) THEN FALSE
        ELSE LET y == intersect_helper(b, r, x[1], x[2], 2)
             IN  IF FLe(y[2], y[1]) THEN FALSE
                 ELSE LET z == intersect_helper(b, r, y[1], y[2], 3)
                      IN  ~FLe(z[2], z[1])

\* ------------------------------------------- specification: AABB::intersect
BoxCoords == 0..MaxExtent
OriginCoords == -1..(MaxExtent + 1)
DirCoords == {-1, 0, 1}

Boxes ==
    {AABB_new(<<0, 0, 0>>, mx) : mx \in BoxCoords \X BoxCoords \X BoxCoords}

Rays ==
    {[origin |-> o, dir |-> d, negz |-> z] :
        o \in OriginCoords \X OriginCoords \X OriginCoords,
        d \in DirCoords \X DirCoords \X DirCoords,
        z \in BOOLEAN}

\* Query ranges with t_min < t_max; <<1, 1000>> is utils::T_MIN.
Ranges == {<<FVal(0), FVal(1)>>, <<(<<1, 2>>), FVal(2)>>, <<(<<1, 1000>>), PInf>>}

BvhIdle ==
    /\ scene = <<>>
    /\ bvh = <<>>
    /\ bpc = "off"
    /\ list_result = <<>>
    /\ to_explore = <<>>
    /\ to_explore_count = 0
    /\ popped = <<>>
    /\ modified_t_max = NaN
    /\ hit_shape = 0
    /\ bvh_result = <<>>

NoThread == -1

\* The command line without a thread-count option, and a scene path that
\* names no readable file.
NoArg == [given |-> FALSE, digits |-> FALSE, value |-> 0]

NoFile ==
    [readable |-> FALSE, valid |-> FALSE, logistics |-> <<0, 0, 0>>,
     shapes |-> <<>>]

MatrixIdle ==
    /\ inv_pc = "off"
    /\ inv_self = <<>>
    /\ inv_temp = <<>>
    /\ inv_res = <<>>
    /\ inv_col = 0
    /\ inv_pivots = <<>>
    /\ inverse_result = <<>>
    /\ sphere_new_result = <<>>

HitIdle ==
    /\ spc = "off"
    /\ hit_query = <<>>
    /\ hit_ln_xi = <<>>
    /\ shape_result = <<>>

CameraIdle ==
    /\ cam_pc = "off"
    /\ cam_ticket = <<>>
    /\ cam_sub = <<>>
    /\ cam_u = NaN
    /\ cam_v = NaN

ShapeIdle == HitIdle /\ MatrixIdle /\ CameraIdle

SchedIdle ==
    /\ thread_arg = NoArg /\ scene_file = NoFile
    /\ out_path = "free" /\ out_file = "absent"
    /\ res_x = 0 /\ res_y = 0 /\ samples = 0 /\ num_threads = 0
    /\ mpc = "off" /\ spawned = 0 /\ joined = 0 /\ fill = <<0, 0, 0>>
    /\ queue = <<>> /\ tx_dropped = FALSE
    /\ rx_lock = NoThread /\ colors_lock = NoThread /\ progress_lock = NoThread
    /\ wpc = <<>> /\ wticket = <<>> /\ wcolor = <<>> /\ wslot = <<>>
    /\ colors = <<>> /\ progress = <<>> /\ stdout = <<>> /\ data = <<>>
    /\ sent_log = <<>> /\ recv_count = <<>> /\ traced = <<>>

TraceIdle ==
    /\ tpc = "off"
    /\ tdepth = 0
    /\ tstack = <<>>
    /\ tvalue = "none"
    /\ tcalls = 0
    /\ tquery = <<>>
    /\ important_samples = <<>>
    /\ pdf_calls = <<>>

AabbIdle ==
    /\ box = AABB_new_empty
    /\ ipc = "off"
    /\ t_min_temp = NaN
    /\ t_max_temp = NaN
    /\ iresult = FALSE

AabbInit ==
    /\ box \in Boxes
    /\ ray \in Rays
    /\ \E rg \in Ranges : t_min = rg[1] /\ t_max = rg[2]
    /\ ipc = "X"
    /\ t_min_temp = t_min
    /\ t_max_temp = t_max
    /\ iresult = FALSE
    /\ BvhIdle
    /\ ShapeIdle
    /\ TraceIdle
    /\ SchedIdle

AxisOf(pc) == IF pc = "X" THEN 1 ELSE IF pc = "Y" THEN 2 ELSE 3

NextAxis(pc) == IF pc = "X" THEN "Y" ELSE IF pc = "Y" THEN "Z" ELSE "true"

\* One axis of AABB::intersect whose interval stays open: go on to the next
\* axis, or return true after Z.
IntersectAxis ==
    /\ ipc \in {"X", "Y", "Z"}
    /\ LET h == intersect_helper(box, ray, t_min_temp, t_max_temp, AxisOf(ipc))
       IN  /\ ~FLe(h[2], h[1])
           /\ t_min_temp' = h[1]
           /\ t_max_temp' = h[2]
    /\ ipc' = NextAxis(ipc)
    /\ iresult' = (ipc = "Z")
    /\ UNCHANGED <<box, queryVars, bvhVars, shapeVars, cameraVars, traceVars, schedVars>>

\* One axis of AABB::intersect whose interval collapses: return false.
IntersectReject ==
    /\ ipc \in {"X", "Y", "Z"}
    /\ LET h == intersect_helper(box, ray, t_min_temp, t_max_temp, AxisOf(ipc))
       IN  /\ FLe(h[2], h[1])
           /\ t_min_temp' = h[1]
           /\ t_max_temp' = h[2]
    /\ ipc' = "false"
    /\ iresult' = FALSE
    /\ UNCHANGED <<box, queryVars, bvhVars, shapeVars, cameraVars, traceVars, schedVars>>

AabbNext == IntersectAxis \/ IntersectReject

SpecAABB == AabbInit /\ [][AabbNext]_vars

\* The parameters the box claims are tested at.
TGrid == {<<n, d>> : n \in -2..(2 * MaxTDen + 2), d \in 1..MaxTDen}

\* ray.origin + t * ray.dir lies inside the box b (bounds included).
PointInBox(b, r, t) ==
    \A a \in Axes :
        /\ b.min[a] * t[2] <= r.origin[a] * t[2] + t[1] * r.dir[a]
        /\ r.origin[a] * t[2] + t[1] * r.dir[a] <= b.max[a] * t[2]

SomePointInBox ==
    \E t \in TGrid : FLt(t_min, t) /\ FLt(t, t_max) /\ PointInBox(box, ray, t)

\* C10: AABB.intersect has no false negatives: when origin + t * dir lies in
\* the box for some t with t_min < t < t_max, intersect does not return false.
C10_NoFalseNegative == SomePointInBox => ipc # "false"

\* C10 witness: a flat box entered in a negative direction, reported as hit.
C10_Witness ==
    /\ ipc = "true"
    /\ iresult
    /\ SomePointInBox
    /\ \E a \in Axes : ray.dir[a] < 0 /\ box.min[a] = box.max[a]

\* The canonical slab step on one axis: the running interval narrowed to
\* (max(t0, t_min), min(t1, t_max)), t0 and t1 swapped for a negative
\* inverse direction.
SlabNarrow(b, r, tmin, tmax, axis) ==
    LET inverse_direction == FDivInt(1, r.dir[axis], r.negz)
        a0 == FDivInt(b.min[axis] - r.origin[axis], r.dir[axis], r.negz)
        a1 == FDivInt(b.max[axis] - r.origin[axis], r.dir[axis], r.negz)
        swap == FLt(inverse_direction, FVal(0))
        t0 == IF swap THEN a1 ELSE a0
        t1 == IF swap THEN a0 ELSE a1
    IN  <<IF FGt(t0, tmin) THEN t0 ELSE tmin, IF FLt(t1, tmax) THEN t1 ELSE tmax>>

\* The canonical running interval after the first n axes.
RECURSIVE SlabInterval(_)
SlabInterval(n) ==
    IF n = 0
    THEN <<t_min, t_max>>
    ELSE LET before == SlabInterval(n - 1)
         IN  SlabNarrow(box, ray, before[1], before[2], n)

\* C16: AABB.intersect is the canonical slab test: after each axis that
\* keeps the interval open the running interval is the canonical one,
\* (max(t0, t_min), min(t1, t_max)) axis after axis, and intersect returns
\* true only when some t with t_min < t < t_max puts the ray inside the box.
C16_CanonicalSlabTest ==
    /\ ipc \in {"Y", "Z", "true"} =>
          <<t_min_temp, t_max_temp>> =
              SlabInterval(IF ipc = "Y" THEN 1 ELSE IF ipc = "Z" THEN 2 ELSE 3)
    /\ ipc = "true" => SomePointInBox

\* ----------------------------------------------------------------- shapes
\* A shape of the scene is named by its index in `scene` (the Arc pointer of
\* the code); scene[i] holds its geometry:
\*   Sphere:   center (the translation of local_to_world), radius, scale (a
\*             uniform scale of local_to_world);
\*   Triangle: v0, v1, v2 (world space) and the mesh's backface culling flag.
Sphere(center, radius, scale) ==
    [kind |-> "Sphere", center |-> center, radius |-> radius, scale |-> scale,
     v0 |-> <<0, 0, 0>>, v1 |-> <<0, 0, 0>>, v2 |-> <<0, 0, 0>>, cull |-> FALSE]

Triangle(v0, v1, v2, cull) ==
    [kind |-> "Triangle", center |-> <<0, 0, 0>>, radius |-> 0, scale |-> 1,
     v0 |-> v0, v1 |-> v1, v2 |-> v2, cull |-> cull]

VSub(p, q) == [a \in Axes |-> p[a] - q[a]]

VAdd(p, q) == [a \in Axes |-> p[a] + q[a]]

Dot(p, q) == p[1] * q[1] + p[2] * q[2] + p[3] * q[3]

Cross(p, q) ==
    <<p[2] * q[3] - p[3] * q[2], p[3] * q[1] - p[1] * q[3], p[1] * q[2] - p[2] * q[1]>>

RECURSIVE SqrtFrom(_, _)
SqrtFrom(n, k) == IF (k + 1) * (k + 1) > n THEN k ELSE SqrtFrom(n, k + 1)

\* f32::sqrt on the perfect squares the scenes of the model are restricted to.
Sqrt(n) == SqrtFrom(n, 0)

IsSquare(n) == n >= 0 /\ Sqrt(n) * Sqrt(n) = n

None == <<>>

Some(x) == <<x>>

\* The quadratic of Sphere::hit.  The local ray is world_to_local * r, that is
\* origin (r.origin - center) / scale and direction r.dir / scale; a, b and c
\* are kept multiplied by scale^2 (the discriminant by scale^4), which changes
\* neither the sign of the discriminant nor the roots.
SphereA(s, r) == Dot(r.dir, r.dir)

SphereB(s, r) == 2 * Dot(VSub(r.origin, s.center), r.dir)

SphereC(s, r) ==
    Dot(VSub(r.origin, s.center), VSub(r.origin, s.center))
        - (s.radius * s.radius) * (s.scale * s.scale)

SphereDiscriminant(s, r) ==
    SphereB(s, r) * SphereB(s, r) - 4 * SphereA(s, r) * SphereC(s, r)

Sphere_hit(s, r, tmin, tmax) ==
    LET a == SphereA(s, r)
        b == SphereB(s, r)
        discriminant == SphereDiscriminant(s, r)
    IN  IF discriminant > 0
        THEN LET first == FDivInt(-b - Sqrt(discriminant), 2 * a, FALSE)
                 t_hit == IF FGe(first, tmax) \/ FLe(first, tmin)
                          THEN FDivInt(-b + Sqrt(discriminant), 2 * a, FALSE)
                          ELSE first
             IN  IF FLt(t_hit, tmax) /\ FGt(t_hit, tmin) THEN Some(t_hit) ELSE None
        ELSE None

\* Triangle::hit (Moeller-Trumbore).  The determinant is an integer here, so
\* -EPSILON < det < EPSILON is det = 0 and det < EPSILON is det <= 0.
Triangle_hit(s, r, tmin, tmax) ==
    LET edge_1 == VSub(s.v1, s.v0)
        edge_2 == VSub(s.v2, s.v0)
        p_vec == Cross(r.dir, edge_2)
        determinant == Dot(edge_1, p_vec)
        t_vec == VSub(r.origin, s.v0)
        u == FDivInt(Dot(t_vec, p_vec), determinant, FALSE)
        q_vec == Cross(t_vec, edge_1)
        v == FDivInt(Dot(r.dir, q_vec), determinant, FALSE)
        t_hit == FDivInt(Dot(edge_2, q_vec), determinant, FALSE)
    IN  IF ~s.cull /\ determinant = 0 THEN None
        ELSE IF s.cull /\ determinant <= 0 THEN None
        ELSE IF FLt(u, FVal(0)) \/ FGt(u, FVal(1)) THEN None
        ELSE IF FLt(v, FVal(0)) \/ FGt(FAdd(u, v), FVal(1)) THEN None
        ELSE IF FLt(t_hit, tmax) /\ FGt(t_hit, tmin) THEN Some(t_hit)
        ELSE None

Shape_hit(s, r, tmin, tmax) ==
    IF s.kind = "Sphere" THEN Sphere_hit(s, r, tmin, tmax)
    ELSE Triangle_hit(s, r, tmin, tmax)

Sphere_get_bounding_box(s) ==
    LET local_min_in_world == VSub(s.center, <<s.radius, s.radius, s.radius>>)
        local_max_in_world == VAdd(s.center, <<s.radius, s.radius, s.radius>>)
    IN  AABB_new(Point3_min(local_min_in_world, local_max_in_world),
                 Point3_max(local_min_in_world, local_max_in_world))

Triangle_get_bounding_box(s) ==
    AABB_new(Point3_min(s.v0, Point3_min(s.v1, s.v2)),
             Point3_max(s.v0, Point3_max(s.v1, s.v2)))

get_bounding_box(s) ==
    IF s.kind = "Sphere" THEN Sphere_get_bounding_box(s)
    ELSE Triangle_get_bounding_box(s)

\* ------------------------------------------------------------ List::hit
\* The loop of List::hit over list[i..]: <<modified_t_max, hit_shape>> with
\* hit_shape = 0 for None.
RECURSIVE ListHitLoop(_, _, _, _, _, _, _)
ListHitLoop(sc, list, i, r, tmin, mod_t_max, shape) ==
    IF i > Len(list) THEN <<mod_t_max, shape>>
    ELSE LET h == Shape_hit(sc[list[i]], r, tmin, mod_t_max)
         IN  IF h # None
             THEN ListHitLoop(sc, list, i + 1, r, tmin, h[1], list[i])
             ELSE ListHitLoop(sc, list, i + 1, r, tmin, mod_t_max, shape)

\* List::hit: None, or Some((shape, t)) as <<shape, t>>.
List_hit(sc, list, r, tmin, tmax) ==
    LET res == ListHitLoop(sc, list, 1, r, tmin, tmax, 0)
    IN  IF res[2] = 0 THEN None ELSE <<res[2], res[1]>>

\* ------------------------------------------------------------- new_bvh
\* AABB::center, doubled: min + max instead of 0.5 * min + 0.5 * max, so that
\* centroids stay integers; every use compares or subtracts centroids.
AABB_center(b) == [a \in Axes |-> b.min[a] + b.max[a]]

AABB_largest_axis(b) ==
    LET diagonal == VSub(b.max, b.min)
    IN  IF diagonal[1] > diagonal[2] /\ diagonal[1] > diagonal[3] THEN 1
        ELSE IF diagonal[2] > diagonal[3] THEN 2
        ELSE 3

AABB_surface_area(b) ==
    LET diagonal == VSub(b.max, b.min)
    IN  2 * (diagonal[1] * diagonal[2] + diagonal[1] * diagonal[3]
                 + diagonal[2] * diagonal[3])

\* f32::MAX, the start value of min_cost and utils::T_MAX.  Every finite value
\* of the model is below f32::MAX, and f32::MAX is compared only by < and <=
\* with such values, +-inf or NaN, where it and +inf give the same answers
\* (x < MAX and MAX <= x for x = +inf included).
F32_MAX == PInf

T_MIN == <<1, 1000>>

T_MAX == F32_MAX

\* total_bounds: the union, from AABB::new_empty(), of the shapes' boxes.
RECURSIVE TotalBounds(_, _, _)
TotalBounds(sc, shapes, i) ==
    IF i = 0 THEN AABB_new_empty
    ELSE AABB_union(TotalBounds(sc, shapes, i - 1), get_bounding_box(sc[shapes[i]]))

\* centroid_bounds: the union, from AABB::new_empty(), of the box centers.
RECURSIVE CentroidBounds(_, _, _)
CentroidBounds(sc, shapes, i) ==
    IF i = 0 THEN AABB_new_empty
    ELSE AABB_union_point(CentroidBounds(sc, shapes, i - 1),
                          AABB_center(get_bounding_box(sc[shapes[i]])))

CentroidKey(sc, shape, cut_axis) == AABB_center(get_bounding_box(sc[shape]))[cut_axis]

\* x put into a sorted list behind every element that is not greater.
RECURSIVE InsertSorted(_, _, _, _)
InsertSorted(sc, sorted, x, cut_axis) ==
    IF sorted = <<>> THEN <<x>>
    ELSE IF CentroidKey(sc, x, cut_axis) < CentroidKey(sc, Head(sorted), cut_axis)
         THEN <<x>> \o sorted
         ELSE <<Head(sorted)>> \o InsertSorted(sc, Tail(sorted), x, cut_axis)

\* shapes.sort_by(centroid along cut_axis): a stable sort.
RECURSIVE SortByCentroid(_, _, _, _)
SortByCentroid(sc, shapes, i, cut_axis) ==
    IF i = 0 THEN <<>>
    ELSE InsertSorted(sc, SortByCentroid(sc, shapes, i - 1, cut_axis), shapes[i], cut_axis)

\* reverse_bounds[i] (1-based) as the first loop leaves it: the last entry is
\* never assigned and stays AABB::new_empty().
RECURSIVE ReverseBounds(_, _, _)
ReverseBounds(sc, shapes, i) ==
    IF i >= Len(shapes) THEN AABB_new_empty
    ELSE AABB_union(get_bounding_box(sc[shapes[i]]), ReverseBounds(sc, shapes, i + 1))

\* The SAH cost of the split behind the k-th sorted shape (idx = k - 1).
SahCost(forward_bounds, reverse_bound, total_bounds, k, n) ==
    FAdd(FAdd(FVal(1),
              FMul(FDivInt(AABB_surface_area(forward_bounds),
                           AABB_surface_area(total_bounds), FALSE), FVal(k))),
         FMul(FDivInt(AABB_surface_area(reverse_bound),
                      AABB_surface_area(total_bounds), FALSE), FVal(n - k)))

\* The second loop from its k-th round on: <<min_cost, min_cost_index + 1>>.
RECURSIVE SahLoop(_, _, _, _, _, _, _)
SahLoop(sc, shapes, total_bounds, k, forward_before, min_cost, min_k) ==
    IF k > Len(shapes) - 1 THEN <<min_cost, min_k>>
    ELSE LET forward_bounds ==
                 AABB_union(forward_before, get_bounding_box(sc[shapes[k]]))
             cost == SahCost(forward_bounds, ReverseBounds(sc, shapes, k + 1),
                             total_bounds, k, Len(shapes))
         IN  IF FLt(cost, min_cost)
             THEN SahLoop(sc, shapes, total_bounds, k + 1, forward_bounds, cost, k)
             ELSE SahLoop(sc, shapes, total_bounds, k + 1, forward_bounds, min_cost, min_k)

BVHLeaf(bounding_box, shapes) ==
    [leaf |-> TRUE, bounding_box |-> bounding_box, shapes |-> shapes,
     cut_axis |-> 0, right_offset |-> 0]

BVHNode_ForgetsBox(bounding_box, cut_axis, right_offset) ==
    [leaf |-> FALSE, bounding_box |-> AABB_new_empty, shapes |-> <<>>,
     cut_axis |-> cut_axis, right_offset |-> right_offset]

BVHNode(bounding_box, cut_axis, right_offset) ==
    [leaf |-> FALSE, bounding_box |-> bounding_box, shapes |-> <<>>,
     cut_axis |-> cut_axis, right_offset |-> right_offset]

split_off_SkipsOne(shapes, at) == SubSeq(shapes, at + 2, Len(shapes))

\* Vec::split_off(at), at 0-based: the elements from at on.
split_off(shapes, at) == SubSeq(shapes, at + 1, Len(shapes))

\* The right_offset that replaces the placeholder's once the left branch is
\* in the vector: bvh.len() - node_idx.
RightOffset_Unpatched(bvh_len, node_idx) == 0

RightOffset(bvh_len, node_idx) == bvh_len - node_idx

\* new_bvh_helper: the nodes it appends to bvh, in order.  The placeholder
\* pushed first is replaced after the left branch by the node with
\* right_offset = bvh.len() - node_idx = 1 + the nodes of the left branch.
RECURSIVE new_bvh_helper(_, _)
new_bvh_helper(sc, shapes_in) ==
    LET total_bounds == TotalBounds(sc, shapes_in, Len(shapes_in))
        centroid_bounds == CentroidBounds(sc, shapes_in, Len(shapes_in))
        cut_axis == AABB_largest_axis(centroid_bounds)
        shapes == SortByCentroid(sc, shapes_in, Len(shapes_in), cut_axis)
        sah == SahLoop(sc, shapes, total_bounds, 1, AABB_new_empty, F32_MAX, 1)
        min_cost == sah[1]
        min_cost_index == sah[2] - 1
    IN  IF Len(shapes_in) <= 2
        THEN <<BVHLeaf(total_bounds, shapes_in)>>
        ELSE IF centroid_bounds.max[cut_axis] = centroid_bounds.min[cut_axis]
        THEN <<BVHLeaf(total_bounds, shapes_in)>>
        ELSE IF FLt(min_cost, FVal(Len(shapes)))
        THEN LET second_half == split_off(shapes, min_cost_index + 1)
                 first_half == SubSeq(shapes, 1, min_cost_index + 1)
                 left == new_bvh_helper(sc, first_half)
                 right == new_bvh_helper(sc, second_half)
             IN  <<BVHNode(total_bounds, cut_axis, RightOffset(1 + Len(left), 0))>>
                     \o left \o right
        ELSE <<BVHLeaf(total_bounds, shapes)>>

new_bvh(sc) == new_bvh_helper(sc, [i \in 1..Len(sc) |-> i])

\* --------------------------------- specification: new_bvh, List::hit, BVH::hit
\* Largest number of shapes in a scene.
MaxShapes == 4

\* The geometry the scenes are drawn from.
Catalog ==
    { Sphere(<<-2, 0, 0>>, 1, 1),
      Sphere(<<2, 0, 0>>, 1, 1),
      Sphere(<<0, 0, 0>>, 1, 5),
      Triangle(<<-1, -1, 2>>, <<1, -1, 2>>, <<0, 1, 2>>, FALSE),
      Triangle(<<3, -1, -1>>, <<3, 1, -1>>, <<3, 0, 1>>, TRUE) }

BvhRays ==
    { [origin |-> <<-4, 0, 0>>, dir |-> <<1, 0, 0>>, negz |-> FALSE],
      [origin |-> <<-4, 0, 0>>, dir |-> <<2, 0, 0>>, negz |-> TRUE],
      [origin |-> <<-6, 3, 0>>, dir |-> <<1, 0, 0>>, negz |-> FALSE],
      [origin |-> <<0, 0, 4>>, dir |-> <<0, 0, -1>>, negz |-> FALSE],
      [origin |-> <<4, 0, 0>>, dir |-> <<-1, 0, 0>>, negz |-> FALSE],
      [origin |-> <<-2, -2, 0>>, dir |-> <<0, 1, 0>>, negz |-> TRUE] }

BvhRanges ==
    {<<T_MIN, T_MAX>>, <<FVal(0), FVal(4)>>, <<FVal(2), FVal(8)>>,
     <<FVal(0), FVal(2)>>}

Scenes == UNION {[1..n -> Catalog] : n \in 0..MaxShapes}

\* Every square root Sphere::hit takes for the ray is exact.
ExactScene(sc, r) ==
    \A i \in 1..Len(sc) :
        sc[i].kind = "Sphere" =>
            \/ SphereDiscriminant(sc[i], r) <= 0
            \/ IsSquare(SphereDiscriminant(sc[i], r))

NoRay == [origin |-> <<0, 0, 0>>, dir |-> <<0, 0, 0>>, negz |-> FALSE]

BvhInit ==
    /\ scene \in Scenes
    /\ ray = NoRay
    /\ t_min = T_MIN
    /\ t_max = T_MAX
    /\ bvh = <<>>
    /\ bpc = "new_bvh"
    /\ list_result = None
    /\ to_explore = <<>>
    /\ to_explore_count = 0
    /\ popped = <<>>
    /\ modified_t_max = T_MAX
    /\ hit_shape = 0
    /\ bvh_result = None
    /\ AabbIdle
    /\ ShapeIdle
    /\ TraceIdle
    /\ SchedIdle

\* scene::deserialize builds the aggregate: new_bvh(shapes).
NewBvh ==
    /\ bpc = "new_bvh"
    /\ bvh' = new_bvh(scene)
    /\ bpc' = "list_hit"
    /\ UNCHANGED <<scene, list_result, to_explore, to_explore_count, popped,
                   modified_t_max, hit_shape, bvh_result, queryVars, aabbVars, shapeVars, cameraVars, traceVars, schedVars>>

\* A query (r, t_min, t_max) arrives; the List aggregate over the same shapes
\* answers it.
ListHit ==
    /\ bpc = "list_hit"
    /\ \E r \in BvhRays, rg \in BvhRanges :
          /\ ExactScene(scene, r)
          /\ ray' = r
          /\ t_min' = rg[1]
          /\ t_max' = rg[2]
          /\ list_result' = List_hit(scene, [i \in 1..Len(scene) |-> i], r, rg[1], rg[2])
    /\ bpc' = "bvh_hit"
    /\ UNCHANGED <<scene, bvh, to_explore, to_explore_count, popped,
                   modified_t_max, hit_shape, bvh_result, aabbVars, shapeVars, cameraVars, traceVars, schedVars>>

get_workspace_OneSlot(b) == <<0>>

\* BVH::get_workspace: a vector of self.len() zeros.
get_workspace(b) == [i \in 1..Len(b) |-> 0]

\* BVH::hit up to its loop, with the workspace of get_workspace(): a vector of
\* bvh.len() zeros.  to_explore holds 0-based node indices.
BvhHitStart ==
    /\ bpc = "bvh_hit"
    /\ IF bvh = <<>>
       THEN /\ bvh_result' = None
            /\ bpc' = "done"
            /\ UNCHANGED <<to_explore, to_explore_count>>
       ELSE /\ to_explore' = [get_workspace(bvh) EXCEPT ![1] = 0]
            /\ to_explore_count' = 1
            /\ bpc' = "loop"
            /\ UNCHANGED bvh_result
    /\ modified_t_max' = t_max
    /\ hit_shape' = 0
    /\ popped' = <<>>
    /\ UNCHANGED <<scene, bvh, list_result, queryVars, aabbVars, shapeVars, cameraVars, traceVars, schedVars>>

\* The node the loop pops next.
CurIdx == to_explore[to_explore_count]

CurNode == bvh[CurIdx + 1]

\* One round of the loop on a leaf.
BvhVisitLeaf ==
    /\ bpc = "loop"
    /\ to_explore_count > 0
    /\ CurNode.leaf
    /\ to_explore_count' = to_explore_count - 1
    /\ popped' = Append(popped, CurIdx)
    /\ IF ~intersect(CurNode.bounding_box, ray, t_min, modified_t_max)
       THEN UNCHANGED <<modified_t_max, hit_shape>>
       ELSE LET h == List_hit(scene, CurNode.shapes, ray, t_min, modified_t_max)
            IN  IF h # None
                THEN modified_t_max' = h[2] /\ hit_shape' = h[1]
                ELSE UNCHANGED <<modified_t_max, hit_shape>>
    /\ UNCHANGED <<scene, bvh, bpc, list_result, to_explore, bvh_result,
                   queryVars, aabbVars, shapeVars, cameraVars, traceVars, schedVars>>

\* One round of the loop on an interior node: the two writes to_explore[count]
\* panic when the index is not below the workspace's length.
BvhVisitNode ==
    /\ bpc = "loop"
    /\ to_explore_count > 0
    /\ ~CurNode.leaf
    /\ popped' = Append(popped, CurIdx)
    /\ LET cur_idx == CurIdx
           node == CurNode
           count == to_explore_count - 1
       IN  IF ~intersect(node.bounding_box, ray, t_min, modified_t_max)
           THEN /\ to_explore_count' = count
                /\ UNCHANGED <<to_explore, bpc>>
           ELSE IF count + 2 > Len(to_explore)
           THEN /\ bpc' = "panic"
                /\ to_explore_count' = count
                /\ UNCHANGED to_explore
           ELSE /\ to_explore' =
                      IF ray.dir[node.cut_axis] < 0
                      THEN [to_explore EXCEPT ![count + 1] = cur_idx + node.right_offset,
                                              ![count + 2] = cur_idx + 1]
                      ELSE [to_explore EXCEPT ![count + 1] = cur_idx + 1,
                                              ![count + 2] = cur_idx + node.right_offset]
                /\ to_explore_count' = count + 2
                /\ UNCHANGED bpc
    /\ UNCHANGED <<scene, bvh, list_result, modified_t_max, hit_shape, bvh_result,
                   queryVars, aabbVars, shapeVars, cameraVars, traceVars, schedVars>>

\* The loop ends: BVH::hit returns.
BvhHitReturn ==
    /\ bpc = "loop"
    /\ to_explore_count = 0
    /\ bvh_result' = IF hit_shape = 0 THEN None ELSE <<hit_shape, modified_t_max>>
    /\ bpc' = "done"
    /\ UNCHANGED <<scene, bvh, list_result, to_explore, to_explore_count, popped,
                   modified_t_max, hit_shape, queryVars, aabbVars, shapeVars, cameraVars, traceVars, schedVars>>

BvhNext ==
    \/ NewBvh
    \/ ListHit
    \/ BvhHitStart
    \/ BvhVisitLeaf
    \/ BvhVisitNode
    \/ BvhHitReturn

SpecBVH == BvhInit /\ [][BvhNext]_vars

\* ------------------------------------------------------ claims on the BVH
Built == bpc \in {"list_hit", "bvh_hit", "loop", "done"}

\* The shapes a single Shape::hit over the whole range reports at parameter t.
ShapesHitAt(t) ==
    {i \in 1..Len(scene) :
        LET h == Shape_hit(scene[i], ray, t_min, t_max)
        IN  h # None /\ FEq(h[1], t)}

SameClosestHit ==
    \/ list_result = None /\ bvh_result = None
    \/ /\ list_result # None
       /\ bvh_result # None
       /\ FEq(list_result[2], bvh_result[2])
       /\ (Cardinality(ShapesHitAt(list_result[2])) = 1
              => list_result[1] = bvh_result[1])

\* C1: for every scene, ray and range the BVH of new_bvh and the List over the
\* same shapes give the same closest hit: both none, or the same t (and the
\* same shape when only one shape attains it).
C1_BvhEqualsList == bpc = "done" => SameClosestHit

RECURSIVE CountIn(_, _)
CountIn(x, seq) ==
    IF seq = <<>> THEN 0
    ELSE (IF Head(seq) = x THEN 1 ELSE 0) + CountIn(x, Tail(seq))

RECURSIVE LeafShapes(_, _)
LeafShapes(nodes, k) ==
    IF k = 0 THEN <<>>
    ELSE LeafShapes(nodes, k - 1) \o (IF nodes[k].leaf THEN nodes[k].shapes ELSE <<>>)

\* C2: after new_bvh the leaves partition the input: every input shape is in
\* exactly one leaf, exactly once, and a leaf holds input shapes only.
C2_LeavesPartitionInput ==
    Built =>
        LET all == LeafShapes(bvh, Len(bvh))
        IN  /\ \A i \in 1..Len(scene) : CountIn(i, all) = 1
            /\ \A j \in 1..Len(all) : all[j] \in 1..Len(scene)

\* C2 witness: a tree with several leaves, one of them holding two shapes.
C2_Witness ==
    /\ Built
    /\ Cardinality({k \in 1..Len(bvh) : bvh[k].leaf}) >= 2
    /\ \E k \in 1..Len(bvh) : bvh[k].leaf /\ Len(bvh[k].shapes) = 2

BoxContains(outer, inner) ==
    \A a \in Axes : outer.min[a] <= inner.min[a] /\ outer.max[a] >= inner.max[a]

\* C3: the box of every interior node contains the boxes of its children, the
\* nodes at index + 1 and index + right_offset.
C3_NodeBoxContainsChildren ==
    Built =>
        \A k \in 1..Len(bvh) :
            ~bvh[k].leaf =>
                /\ k + 1 <= Len(bvh)
                /\ k + bvh[k].right_offset <= Len(bvh)
                /\ BoxContains(bvh[k].bounding_box, bvh[k + 1].bounding_box)
                /\ BoxContains(bvh[k].bounding_box,
                               bvh[k + bvh[k].right_offset].bounding_box)

\* C3 witness: an interior node whose children have different boxes, both
\* smaller than its own.
C3_Witness ==
    /\ Built
    /\ \E k \in 1..Len(bvh) :
          /\ ~bvh[k].leaf
          /\ bvh[k + 1].bounding_box # bvh[k].bounding_box
          /\ bvh[k + bvh[k].right_offset].bounding_box # bvh[k].bounding_box
          /\ bvh[k + 1].bounding_box # bvh[k + bvh[k].right_offset].bounding_box

\* The first call of new_bvh_helper, on all the shapes of the scene: its
\* cut axis and its shapes once sorted.
RootShapes == [i \in 1..Len(scene) |-> i]

RootCentroidBounds == CentroidBounds(scene, RootShapes, Len(scene))

RootCutAxis == AABB_largest_axis(RootCentroidBounds)

RootSorted == SortByCentroid(scene, RootShapes, Len(scene), RootCutAxis)

\* The first call reaches the SAH loops: more than two shapes and centroids
\* that differ along the cut axis.
RootAppliesSah ==
    /\ Built
    /\ Len(scene) > 2
    /\ RootCentroidBounds.max[RootCutAxis] # RootCentroidBounds.min[RootCutAxis]

\* The union of the bounding boxes of shapes[k], ..., shapes[n] (1-based).
RECURSIVE SuffixUnion(_, _, _)
SuffixUnion(sc, shapes, k) ==
    IF k >= Len(shapes)
    THEN get_bounding_box(sc[shapes[Len(shapes)]])
    ELSE AABB_union(get_bounding_box(sc[shapes[k]]), SuffixUnion(sc, shapes, k + 1))

\* C18: when new_bvh_helper evaluates the SAH costs of n > 2 sorted shapes,
\* reverse_bounds[i] is, for every i in 1..n-1, the union of the bounding
\* boxes of the sorted shapes i, ..., n-1, the last shape's box included
\* (reverse_bounds is 0-based in the code, ReverseBounds 1-based here).
C18_ReverseBoundsAreSuffixUnions ==
    RootAppliesSah =>
        \A i \in 1..(Len(scene) - 1) :
            ReverseBounds(scene, RootSorted, i + 1) =
                SuffixUnion(scene, RootSorted, i + 1)

\* The union of the bounding boxes of shapes[1], ..., shapes[k].
RECURSIVE PrefixUnion(_, _, _)
PrefixUnion(sc, shapes, k) ==
    IF k <= 1
    THEN get_bounding_box(sc[shapes[1]])
    ELSE AABB_union(PrefixUnion(sc, shapes, k - 1), get_bounding_box(sc[shapes[k]]))

\* cost(i) of the split behind the k-th sorted shape (i = k - 1):
\* 1 + SA(left) / SA(total) * (i + 1) + SA(right) / SA(total) * (n - i - 1),
\* left and right the unions of the shapes of either side.
SplitCost(k) ==
    SahCost(PrefixUnion(scene, RootSorted, k),
            SuffixUnion(scene, RootSorted, k + 1),
            SuffixUnion(scene, RootSorted, 1), k, Len(scene))

\* The smallest split that attains the minimum cost.
BestSplit ==
    CHOOSE k \in 1..(Len(scene) - 1) :
        /\ \A j \in 1..(Len(scene) - 1) : FLe(SplitCost(k), SplitCost(j))
        /\ \A j \in 1..(k - 1) : FLt(SplitCost(k), SplitCost(j))

\* The shapes in the leaves of bvh[lo..hi].
ShapesBeneath(lo, hi) ==
    UNION {{bvh[j].shapes[x] : x \in 1..Len(bvh[j].shapes)} : j \in lo..hi}

\* The centroids of the shapes differ along the cut axis.
CentroidsDiffer ==
    \E i, j \in 1..Len(scene) :
        CentroidKey(scene, i, RootCutAxis) # CentroidKey(scene, j, RootCutAxis)

\* C19: for n > 2 shapes whose centroids differ along the cut axis,
\* new_bvh_helper splits exactly when the minimum of cost(i) over the splits
\* i in [0, n-2] is below n; it then gives the first i*+1 shapes in centroid
\* order to the left subtree and the other n-i*-1 to the right one, i* the
\* smallest split of minimum cost; otherwise it emits one leaf with all n
\* shapes.
C19_SahSplitDecision ==
    (RootAppliesSah /\ CentroidsDiffer) =>
        LET n == Len(scene)
        IN  IF FLt(SplitCost(BestSplit), FVal(n))
            THEN /\ ~bvh[1].leaf
                 /\ ShapesBeneath(2, bvh[1].right_offset) =
                        {RootSorted[x] : x \in 1..BestSplit}
                 /\ ShapesBeneath(bvh[1].right_offset + 1, Len(bvh)) =
                        {RootSorted[x] : x \in (BestSplit + 1)..n}
            ELSE /\ Len(bvh) = 1
                 /\ bvh[1].leaf
                 /\ bvh[1].shapes = RootSorted

\* The last node of the subtree of node k: a leaf is its own subtree, an
\* interior node's subtree ends where its right child's does.
RECURSIVE SubtreeEnd(_)
SubtreeEnd(k) ==
    IF bvh[k].leaf THEN k ELSE SubtreeEnd(k + bvh[k].right_offset)

\* The union box of a non-empty set of shapes of the scene: the componentwise
\* minimum and maximum over their bounding boxes.
UnionBox(ids) ==
    LET b(i) == get_bounding_box(scene[i])
    IN  AABB_new(
            [a \in Axes |->
                CHOOSE v \in {b(i).min[a] : i \in ids} :
                    \A i \in ids : v <= b(i).min[a]],
            [a \in Axes |->
                CHOOSE v \in {b(i).max[a] : i \in ids} :
                    \A i \in ids : v >= b(i).max[a]])

\* C20: the bounding box stored in every leaf and every interior node of the
\* BVH is exactly the union box of the shapes beneath it.
C20_NodeBoxIsUnionBox ==
    Built =>
        \A k \in 1..Len(bvh) :
            LET beneath == ShapesBeneath(k, SubtreeEnd(k))
            IN  beneath # {} => bvh[k].bounding_box = UnionBox(beneath)

\* The loop of BVH::hit is at an interior node and this step pushes its
\* two children.
PushesChildren ==
    /\ bpc = "loop"
    /\ to_explore_count > 0
    /\ ~CurNode.leaf
    /\ to_explore_count' = to_explore_count + 1

\* C17: at an interior node whose box is hit, a ray whose direction along
\* the node's cut axis is positive has the right child pushed and then the
\* left, so that the left child (index + 1) is popped next; any other ray has
\* the left child pushed and then the right, so that the right child is
\* popped next.
C17_NearChildFirst ==
    [][PushesChildren =>
          LET left == CurIdx + 1
              right == CurIdx + CurNode.right_offset
              first_pushed == to_explore'[to_explore_count]
              second_pushed == to_explore'[to_explore_count + 1]
          IN  IF ray.dir[CurNode.cut_axis] > 0
              THEN first_pushed = right /\ second_pushed = left
              ELSE first_pushed = left /\ second_pushed = right]_vars

\* The last index of the subtree laid out in pre-order from index k on, the
\* left subtree right behind its node and the right subtree right behind the
\* left one; 0 where the array does not have that layout.
RECURSIVE PreOrderEnd(_)
PreOrderEnd(k) ==
    IF k > Len(bvh) THEN 0
    ELSE IF bvh[k].leaf THEN k
    ELSE LET left_end == PreOrderEnd(k + 1)
         IN  IF left_end = 0 \/ bvh[k].right_offset # 1 + (left_end - k)
             THEN 0
             ELSE PreOrderEnd(k + bvh[k].right_offset)

\* C21: the finished BVH is a pre-order flat array: behind every interior
\* node come its left subtree and then, at index + right_offset, its right
\* subtree; right_offset is 1 plus the number of nodes of the left subtree,
\* at least 2 and inside the array; and no placeholder (right_offset 0, empty
\* box) is left.  Indices are 1-based here, 0-based in the claim.
C21_PreOrderFlatArray ==
    (Built /\ bvh # <<>>) =>
        /\ PreOrderEnd(1) = Len(bvh)
        /\ \A k \in 1..Len(bvh) :
              ~bvh[k].leaf =>
                  /\ PreOrderEnd(k) # 0
                  /\ bvh[k].right_offset >= 2
                  /\ (k - 1) + bvh[k].right_offset < Len(bvh)
                  /\ ~(bvh[k].right_offset = 0
                        /\ bvh[k].bounding_box = AABB_new_empty)

\* C21 witness: an interior node whose left child is itself an interior
\* node, so that its right_offset spans a subtree of three nodes.
C21_Witness ==
    /\ Built
    /\ \E k \in 1..Len(bvh) :
          /\ ~bvh[k].leaf
          /\ ~bvh[k + 1].leaf
          /\ bvh[k].right_offset = 4

\* C22: in a BVH::hit run on the workspace of get_workspace() the stack
\* never overflows: the workspace keeps the length of the BVH, the number of
\* stacked indices stays within it, no read or write falls outside it (the
\* panic of an out-of-range index is never reached), every stacked and every
\* popped index is the index of a node, and no node is popped twice.
C22_StackNeverOverflows ==
    (bpc \in {"loop", "done", "panic"} /\ bvh # <<>>) =>
        /\ bpc # "panic"
        /\ Len(to_explore) = Len(bvh)
        /\ to_explore_count \in 0..Len(bvh)
        /\ \A j \in 1..to_explore_count : to_explore[j] \in 0..(Len(bvh) - 1)
        /\ \A j \in 1..Len(popped) : popped[j] \in 0..(Len(bvh) - 1)
        /\ \A i, j \in 1..Len(popped) : i # j => popped[i] # popped[j]

\* C22 witness: a traversal of a BVH of at least five nodes that has popped
\* every one of them, with three indices stacked at some point (two nested
\* interior nodes).
C22_Witness ==
    /\ bpc = "done"
    /\ Len(bvh) >= 5
    /\ Len(popped) = Len(bvh)
    /\ \E k \in 1..Len(bvh) : ~bvh[k].leaf /\ ~bvh[k + 1].leaf

\* ------------------------------------- specification: every kind of hit
\* volume::ConstantMedium: a boundary shape and a density.
ConstantMedium(boundary, density) ==
    [kind |-> "ConstantMedium", boundary |-> boundary, density |-> density]

\* std::f32::EPSILON = 2^-23
EPSILON == <<1, 8388608>>

\* Vector3::length, on the directions whose length is an integer.
Vector3_length(v) == Sqrt(Dot(v, v))

free_flight_Unscaled(density, ln_xi) == FMul(FVal(-1), ln_xi)

\* (-1.0 / self.density) * rand::random::<f32>().ln()
free_flight(density, ln_xi) == FMul(FDivInt(-1, density, FALSE), ln_xi)

\* ConstantMedium::hit; ln_xi is rand::random::<f32>().ln(), negative or -inf.
\* -f32::MAX and f32::MAX bound the two boundary queries; they are modelled
\* by -inf and +inf as F32_MAX is.
ConstantMedium_hit(s, r, tmin, tmax, ln_xi) ==
    LET h1 == Shape_hit(s.boundary, r, NInf, F32_MAX)
    IN  IF h1 = None THEN None
        ELSE
        LET h2 == Shape_hit(s.boundary, r, FAdd(h1[1], EPSILON), F32_MAX)
        IN  IF h2 = None THEN None
            ELSE
            LET t_hit1 == IF FLt(h1[1], tmin) THEN tmin ELSE h1[1]
                t_hit2 == IF FGt(h2[1], tmax) THEN tmax ELSE h2[1]
                t_hit1z == IF FLt(t_hit1, FVal(0)) THEN FVal(0) ELSE t_hit1
                length == Vector3_length(r.dir)
                distance_inside_boundary ==
                    FMul(FAdd(t_hit2, <<-t_hit1z[1], t_hit1z[2]>>), FVal(length))
                hit_dist == free_flight(s.density, ln_xi)
            IN  IF FGe(t_hit1, t_hit2) THEN None
                ELSE IF FGt(hit_dist, distance_inside_boundary) THEN None
                ELSE Some(FAdd(t_hit1z, FMul(hit_dist, FDivInt(1, length, FALSE))))

\* The shapes asked on their own: the catalog's and two media around spheres.
HitCatalog ==
    Catalog \cup {ConstantMedium(Sphere(<<0, 0, 0>>, 1, 1), 1),
                  ConstantMedium(Sphere(<<0, 0, 0>>, 1, 5), 2)}

\* Values of ln(xi) for xi in [0, 1): ln(0) = -inf.
LnRandom == {NInf, FVal(-2), FVal(-1), <<-1, 2>>}

\* One Shape::hit with the ray and the range of the aggregate queries.
ShapeHit ==
    /\ bpc = "done"
    /\ spc = "off"
    /\ \E s \in HitCatalog, ln_xi \in LnRandom :
          /\ IF s.kind = "ConstantMedium"
             THEN /\ ExactScene(<<s.boundary>>, ray)
                  /\ IsSquare(Dot(ray.dir, ray.dir))
             ELSE /\ ExactScene(<<s>>, ray)
                  /\ ln_xi = NInf
          /\ hit_query' = s
          /\ hit_ln_xi' = ln_xi
          /\ shape_result' =
                IF s.kind = "ConstantMedium"
                THEN ConstantMedium_hit(s, ray, t_min, t_max, ln_xi)
                ELSE Shape_hit(s, ray, t_min, t_max)
    /\ spc' = "done"
    /\ UNCHANGED <<queryVars, aabbVars, bvhVars, matrixVars, cameraVars, traceVars, schedVars>>

HitNext ==
    \/ BvhNext
    \/ ShapeHit

SpecHit == BvhInit /\ [][HitNext]_vars

InsideRange(t) == FLt(t_min, t) /\ FLt(t, t_max)

\* C12: a hit is produced only for t inside the query range: the t of every
\* hit that a shape, List::hit or BVH::hit returns for (t_min, t_max)
\* satisfies t_min < t < t_max.
C12_HitInsideRange ==
    /\ list_result # None => InsideRange(list_result[2])
    /\ (bpc = "done" /\ bvh_result # None) => InsideRange(bvh_result[2])
    /\ (spc = "done" /\ shape_result # None) => InsideRange(shape_result[1])

\* ------------------------------------------- specification: aggregate::trace
MAX_DEPTH == 50

\* Largest number of PDF-scattering bounces on one path (the Specular bounces
\* are bounded by MAX_DEPTH alone).
MaxPdfBounces == 1

\* trace(r, ..., depth) goes on to the materials only when depth < MAX_DEPTH.
DepthAllowsBounce_Inclusive(depth) == depth <= MAX_DEPTH

DepthAllowsBounce(depth) == depth < MAX_DEPTH

\* The depth trace passes to its recursive call.
RecursiveDepth(depth) == depth + 1

\* Largest number of members of the important-samples Mixture.
MaxImportant == 1

\* The PDF enum: Cosine, Shape(shape) and Mixture(members).
PDF_Cosine == [kind |-> "Cosine", members |-> <<>>, shape |-> 0]

PDF_Shape(i) == [kind |-> "Shape", members |-> <<>>, shape |-> i]

PDF_Mixture(ms) == [kind |-> "Mixture", members |-> ms, shape |-> 0]

\* PDF::is_valid: a Mixture is valid when it has members.
PDF_is_valid_Always(p) == TRUE

PDF_is_valid(p) == IF p.kind = "Mixture" THEN p.members # <<>> ELSE TRUE

\* PDF::generate: a direction, or the panic of Mixture::generate on an empty
\* Mixture ("Mixture PDF had no members!").  The directions a member can
\* give all count as "direction".
PDF_generate(p) ==
    IF p.kind = "Mixture" /\ p.members = <<>> THEN "panic" ELSE "direction"

\* pdf::pair_generate: the first PDF when the random number is < 0.5.
pair_generate(first_pdf, second_pdf, first) ==
    IF first THEN PDF_generate(first_pdf) ELSE PDF_generate(second_pdf)

NoPdfCalls ==
    [mix_generate |-> 0, mix_value |-> 0, hit_generate |-> 0, hit_value |-> 0]

PdfFrames(stack) == Cardinality({i \in 1..Len(stack) : stack[i] = "PDF"})

\* What a call of trace finds: whether the aggregate reports a hit and, for
\* the material of the hit shape, whether emit returns Some and what scatter
\* would return (None, or a Specular or PDF reflectance).
NoHit == [hit |-> FALSE, emit |-> FALSE, scatter |-> "None"]

TraceQueries ==
    {NoHit} \cup
    {[hit |-> TRUE, emit |-> e, scatter |-> sc] :
        e \in BOOLEAN, sc \in {"None", "Specular", "PDF"}}

Found(q, scatter_called) ==
    [hit |-> q.hit, emit |-> q.emit, scatter |-> q.scatter,
     scatter_called |-> scatter_called]

trace_select_ScatterFirst(depth, q) ==
    IF ~DepthAllowsBounce(depth) \/ ~q.hit THEN "background"
    ELSE IF q.scatter # "None" THEN q.scatter
    ELSE IF q.emit THEN "emission"
    ELSE "black"

\* The branch trace takes: the background beyond MAX_DEPTH or without a hit,
\* the emission of an emitting material, else what scatter returns: black
\* for None, a recursive call for Specular and for PDF.
trace_select(depth, q) ==
    IF ~DepthAllowsBounce(depth) \/ ~q.hit THEN "background"
    ELSE IF q.emit THEN "emission"
    ELSE IF q.scatter = "None" THEN "black"
    ELSE q.scatter

\* scatter is called only behind the match on emit.
trace_calls_scatter(depth, q) == DepthAllowsBounce(depth) /\ q.hit /\ ~q.emit

\* main's thread_work calls trace(r, ..., depth = 0).
TraceInit ==
    /\ tpc = "call"
    /\ tdepth = 0
    /\ tstack = <<>>
    /\ tvalue = "none"
    /\ tcalls = 1
    /\ tquery = Found(NoHit, FALSE)
    /\ important_samples \in {PDF_Mixture([i \in 1..n |-> PDF_Shape(i)]) : n \in 0..MaxImportant}
    /\ pdf_calls = NoPdfCalls
    /\ ray = NoRay
    /\ t_min = T_MIN
    /\ t_max = T_MAX
    /\ AabbIdle
    /\ BvhIdle
    /\ ShapeIdle
    /\ SchedIdle

\* depth >= MAX_DEPTH: the aggregate is queried, the match is skipped and
\* bg_func(r) is returned.
TraceDepthExhausted ==
    /\ tpc = "call"
    /\ ~DepthAllowsBounce(tdepth)
    /\ \E q \in TraceQueries :
          /\ trace_select(tdepth, q) = "background"
          /\ tquery' = Found(q, trace_calls_scatter(tdepth, q))
    /\ tvalue' = "background"
    /\ tpc' = "return"
    /\ UNCHANGED <<tdepth, tstack, tcalls, important_samples, pdf_calls, queryVars, aabbVars, bvhVars, shapeVars, cameraVars, schedVars>>

\* hit returns None: bg_func(r) is returned.
TraceMiss ==
    /\ tpc = "call"
    /\ DepthAllowsBounce(tdepth)
    /\ \E q \in TraceQueries :
          /\ trace_select(tdepth, q) = "background"
          /\ tquery' = Found(q, trace_calls_scatter(tdepth, q))
    /\ tvalue' = "background"
    /\ tpc' = "return"
    /\ UNCHANGED <<tdepth, tstack, tcalls, important_samples, pdf_calls, queryVars, aabbVars, bvhVars, shapeVars, cameraVars, schedVars>>

\* The material of the hit shape emits: the emission is returned.
TraceEmit ==
    /\ tpc = "call"
    /\ DepthAllowsBounce(tdepth)
    /\ \E q \in TraceQueries :
          /\ trace_select(tdepth, q) = "emission"
          /\ tquery' = Found(q, trace_calls_scatter(tdepth, q))
    /\ tvalue' = "emission"
    /\ tpc' = "return"
    /\ UNCHANGED <<tdepth, tstack, tcalls, important_samples, pdf_calls, queryVars, aabbVars, bvhVars, shapeVars, cameraVars, schedVars>>

\* The material neither emits nor scatters: black is returned.
TraceAbsorb ==
    /\ tpc = "call"
    /\ DepthAllowsBounce(tdepth)
    /\ \E q \in TraceQueries :
          /\ trace_select(tdepth, q) = "black"
          /\ tquery' = Found(q, trace_calls_scatter(tdepth, q))
    /\ tvalue' = "black"
    /\ tpc' = "return"
    /\ UNCHANGED <<tdepth, tstack, tcalls, important_samples, pdf_calls, queryVars, aabbVars, bvhVars, shapeVars, cameraVars, schedVars>>

\* Reflectance::Specular: the call is suspended in attenuation * trace(...)
\* and trace runs again with depth + 1.
TraceSpecular ==
    /\ tpc = "call"
    /\ DepthAllowsBounce(tdepth)
    /\ \E q \in TraceQueries :
          /\ trace_select(tdepth, q) = "Specular"
          /\ tquery' = Found(q, trace_calls_scatter(tdepth, q))
    /\ tstack' = Append(tstack, "Specular")
    /\ tdepth' = RecursiveDepth(tdepth)
    /\ tcalls' = tcalls + 1
    /\ UNCHANGED <<tpc, tvalue, important_samples, pdf_calls, queryVars, aabbVars, bvhVars, shapeVars, cameraVars, schedVars>>

\* Reflectance::PDF: pair_generate and pair_value when the important samples
\* are valid, the material's PDF alone otherwise; then hit_pdf.value again,
\* the call is suspended in attenuation * value * trace(...) / pdf_val and
\* trace runs again with depth + 1.  A panic of generate ends the run.
TracePdf ==
    /\ tpc = "call"
    /\ DepthAllowsBounce(tdepth)
    /\ \E q \in TraceQueries :
          /\ trace_select(tdepth, q) = "PDF"
          /\ tquery' = Found(q, trace_calls_scatter(tdepth, q))
    /\ PdfFrames(tstack) < MaxPdfBounces
    /\ \E first \in BOOLEAN :
          LET hit_pdf == PDF_Cosine
              paired == PDF_is_valid(important_samples)
              dir == IF paired
                     THEN pair_generate(important_samples, hit_pdf, first)
                     ELSE PDF_generate(hit_pdf)
              on_mix == IF paired /\ first THEN 1 ELSE 0
          IN  /\ pdf_calls' =
                    [mix_generate |-> pdf_calls.mix_generate + on_mix,
                     mix_value |-> pdf_calls.mix_value
                                     + (IF paired /\ dir # "panic" THEN 1 ELSE 0),
                     hit_generate |-> pdf_calls.hit_generate + (1 - on_mix),
                     hit_value |-> pdf_calls.hit_value
                                     + (IF dir # "panic" THEN 2 ELSE 0)]
              /\ IF dir = "panic"
                 THEN /\ tpc' = "panic"
                      /\ UNCHANGED <<tstack, tdepth, tcalls>>
                 ELSE /\ tstack' = Append(tstack, "PDF")
                      /\ tdepth' = RecursiveDepth(tdepth)
                      /\ tcalls' = tcalls + 1
                      /\ UNCHANGED tpc
    /\ UNCHANGED <<tvalue, important_samples, queryVars, aabbVars, bvhVars, shapeVars, cameraVars, schedVars>>

\* A call returns into its suspended caller, which scales the value and
\* returns in turn.
TraceReturn ==
    /\ tpc = "return"
    /\ tstack # <<>>
    /\ tstack' = SubSeq(tstack, 1, Len(tstack) - 1)
    /\ tdepth' = tdepth - 1
    /\ UNCHANGED <<tpc, tvalue, tcalls, tquery, important_samples, pdf_calls, queryVars, aabbVars, bvhVars, shapeVars, cameraVars, schedVars>>

\* The call with depth 0 returns to thread_work.
TraceDone ==
    /\ tpc = "return"
    /\ tstack = <<>>
    /\ tpc' = "done"
    /\ UNCHANGED <<tdepth, tstack, tvalue, tcalls, tquery, important_samples, pdf_calls, queryVars, aabbVars, bvhVars, shapeVars, cameraVars, schedVars>>

TraceNext ==
    \/ TraceDepthExhausted
    \/ TraceMiss
    \/ TraceEmit
    \/ TraceAbsorb
    \/ TraceSpecular
    \/ TracePdf
    \/ TraceReturn
    \/ TraceDone

SpecTrace == TraceInit /\ [][TraceNext]_vars

\* trace is sequential code: a call that can take a step takes it.
FairSpecTrace == SpecTrace /\ WF_vars(TraceNext)

\* C4: trace started at depth 0 respects MAX_DEPTH and terminates: no call
\* runs with depth > 50, the calls nested at any time are depth + 1 <= 51, a
\* call makes at most one recursive call and passes depth + 1, a call with
\* depth >= 50 returns the background without recursing or scattering, and
\* the top-level call eventually returns.
C4_TraceRespectsMaxDepth ==
    /\ [](tpc \in {"call", "return"} =>
            /\ tdepth <= MAX_DEPTH
            /\ tdepth = Len(tstack)
            /\ Len(tstack) + 1 <= MAX_DEPTH + 1)
    /\ [][/\ Len(tstack') <= Len(tstack) + 1
          /\ Len(tstack') = Len(tstack) + 1 =>
                 tpc = "call" /\ tdepth' = tdepth + 1 /\ tdepth < MAX_DEPTH
          /\ (tpc = "call" /\ tdepth >= MAX_DEPTH) =>
                 tpc' = "return" /\ tvalue' = "background" /\ tstack' = tstack]_vars
    /\ <>(tpc = "done")

\* C4 witness: a call at depth 50 returned the background to 50 suspended
\* callers, one of them a PDF bounce.
C4_Witness ==
    /\ tpc = "return"
    /\ tdepth = MAX_DEPTH
    /\ tvalue = "background"
    /\ Len(tstack) = MAX_DEPTH
    /\ tcalls = MAX_DEPTH + 1
    /\ PdfFrames(tstack) = 1

\* C11: trace never reaches the panic of Mixture::generate, and when the
\* important-samples Mixture is empty the PDF-scatter case calls neither
\* generate nor value on it: the material's PDF gives the direction and the
\* denominator.
C11_EmptyMixtureBypassed ==
    /\ tpc # "panic"
    /\ important_samples.members = <<>> =>
          /\ pdf_calls.mix_generate = 0
          /\ pdf_calls.mix_value = 0

\* C11 witness: with an empty Mixture a PDF scatter took its direction from
\* the material's PDF and trace recursed.
C11_Witness ==
    /\ important_samples.members = <<>>
    /\ PdfFrames(tstack) = 1
    /\ pdf_calls.hit_generate = 1
    /\ pdf_calls.hit_value = 2
    /\ pdf_calls.mix_generate = 0

\* C23: a call of trace with depth < 50 returns the background applied to the
\* ray when the aggregate reports no hit; returns the emission, without
\* calling scatter or trace, when the hit material emits; and returns black,
\* not the background, when the hit material neither emits nor scatters.
C23_ResultSelection ==
    [][(tpc = "call" /\ tdepth < MAX_DEPTH) =>
          /\ ~tquery'.hit => (tpc' = "return" /\ tvalue' = "background")
          /\ (tquery'.hit /\ tquery'.emit) =>
                /\ tpc' = "return"
                /\ tvalue' = "emission"
                /\ ~tquery'.scatter_called
                /\ tcalls' = tcalls
                /\ tstack' = tstack
          /\ (tquery'.hit /\ ~tquery'.emit /\ tquery'.scatter = "None") =>
                /\ tpc' = "return"
                /\ tvalue' = "black"
                /\ tquery'.scatter_called]_vars

\* C23 witness: a bounced ray has hit a material that emits and would also
\* scatter; the call returns the emission and scatter was not called.
C23_Witness ==
    /\ tpc = "return"
    /\ tdepth = 1
    /\ Len(tstack) = 1
    /\ tvalue = "emission"
    /\ tquery.hit
    /\ tquery.emit
    /\ tquery.scatter = "PDF"
    /\ ~tquery.scatter_called
    /\ tcalls = 2

\* --------------------------------- specification: main and thread_work
\* Largest total work res_x * res_y * samples, and largest thread count.
MaxTickets == 4
MaxThreads == 2

\* One channel stands for the three of RGB: every operation of main treats
\* the channels alike.  A sample is black or white.
TraceVals == {0, 1}

Logistics ==
    {l \in (1..MaxTickets) \X (1..MaxTickets) \X (1..MaxTickets) :
        l[1] * l[2] * l[3] <= MaxTickets}

Threads == 0..(num_threads - 1)

TotalWork == res_x * res_y * samples

AccumulatorIndex_RowMajor(x, y) == (y * res_x) + x

\* The slot of pixel (x, y) in colors that a worker adds to:
\* out_colors[((x * res_y) + y) as usize]
AccumulatorIndex(x, y) == (x * res_y) + y

\* out_colors[i] = out_colors[i] + pixel_color
AccumulatorAdd(old, c) == old + c

\* Mutex::lock returns once no thread holds the mutex.
MutexFree_Ignored(holder) == TRUE

MutexFree(holder) == holder = NoThread

\* The MutexGuard goes out of scope: the mutex has no holder.
MutexGuard_drop_Leaks(holder) == holder

MutexGuard_drop(holder) == NoThread

\* Receiver::iter().next(): Some(ticket) takes the oldest ticket off the
\* channel; None once the channel is empty and the Sender is dropped.
QueueAfterRecv_Peek(q) == q

QueueAfterRecv(q) == Tail(q)

RecvDisconnected_WhenEmpty(q, dropped) == q = <<>>

RecvDisconnected(q, dropped) == q = <<>> /\ dropped

\* The three nested loops of the fill: the counters after one send.
FillAdvance_SkipsSample(f) ==
    IF f[3] + 2 < samples THEN <<f[1], f[2], f[3] + 2>>
    ELSE IF f[2] + 1 < res_y THEN <<f[1], f[2] + 1, 0>>
    ELSE <<f[1] + 1, 0, 0>>

FillAdvance(f) ==
    IF f[3] + 1 < samples THEN <<f[1], f[2], f[3] + 1>>
    ELSE IF f[2] + 1 < res_y THEN <<f[1], f[2] + 1, 0>>
    ELSE <<f[1] + 1, 0, 0>>

FillFinished_OneColumnEarly(f) == f[1] >= res_x - 1

FillFinished(f) == f[1] >= res_x

\* Progress::new
Progress_new(total) ==
    [total_work |-> total, current_progress |-> 0,
     last_update_percentage |-> FVal(0)]

UPDATE_DELTA == <<9, 1000>>

\* f32::round of a non-negative value n/d
Round(n, d) == ((2 * n) + d) \div (2 * d)

Progress_advance_Lost(p, progress_made) == p.current_progress

\* std::cmp::min(self.current_progress + progress_made, self.total_work)
Progress_advance(p, progress_made) ==
    IF p.current_progress + progress_made < p.total_work
    THEN p.current_progress + progress_made
    ELSE p.total_work

Progress_update_AlwaysPrints(p, progress_made) ==
    LET cur == IF p.current_progress + progress_made < p.total_work
               THEN p.current_progress + progress_made ELSE p.total_work
    IN  <<[p EXCEPT !.current_progress = cur,
                    !.last_update_percentage = <<cur, p.total_work>>],
          << <<Round(cur * 20, p.total_work), Round(cur * 100, p.total_work)>> >> >>

\* Progress::update followed by print_progress when the percentage moved by
\* more than UPDATE_DELTA; the result is <<tracker, lines printed>>.  The
\* percentages are the fractions <<work, total_work>>, not reduced.
Progress_update(p, progress_made) ==
    LET cur == Progress_advance(p, progress_made)
        last == p.last_update_percentage
        moved == Abs((cur * last[2]) - (last[1] * p.total_work)) * UPDATE_DELTA[2]
                     > UPDATE_DELTA[1] * p.total_work * last[2]
    IN  IF moved
        THEN <<[p EXCEPT !.current_progress = cur,
                         !.last_update_percentage = <<cur, p.total_work>>],
               << <<Round(cur * 20, p.total_work),
                    Round(cur * 100, p.total_work)>> >> >>
        ELSE <<[p EXCEPT !.current_progress = cur], <<>> >>

\* Progress::done
Progress_done(p) ==
    [p EXCEPT !.current_progress = 0, !.last_update_percentage = FVal(0)]

\* (sqrt(sum / n) * COLOR_SPACE) as u8, COLOR_SPACE = 255.99: the largest
\* byte b with (100 b)^2 n <= 25599^2 sum, 25599^2 = 65530 * 10^4 + 8801.
ByteOf(sum, n) ==
    LET fits(b) == b * b * n <= (65530 * sum) + ((8801 * sum) \div 10000)
        top == CHOOSE b \in 0..300 : fits(b) /\ ~fits(b + 1)
    IN  IF top > 255 THEN 255 ELSE top

FinalizeIndex_RowMajor(x, y) == (y * res_x) + x

\* The slot the finalization reads for pixel (x, y):
\* locked_colors[((x * res_y) + y) as usize]
FinalizeIndex(x, y) == (x * res_y) + y

RECURSIVE Finalize(_, _)
\* The finalization loops: y outer, x inner, three bytes for each pixel.
Finalize(x, y) ==
    IF y >= res_y THEN <<>>
    ELSE IF x >= res_x THEN Finalize(0, y + 1)
    ELSE LET b == ByteOf(colors[FinalizeIndex(x, y) + 1], samples)
         IN  <<b, b, b>> \o Finalize(x + 1, y)

\* A thread-count option holding the decimal digits of n.
ThreadArg(n) == [given |-> TRUE, digits |-> TRUE, value |-> n]

\* A readable scene file whose JSON describes the logistics l and shapes
\* of the materials ms, in the order of the file.
SceneFile(l, ms) ==
    [readable |-> TRUE, valid |-> TRUE, logistics |-> l, shapes |-> ms]

Init ==
    /\ \E l \in Logistics :
          /\ res_x = l[1] /\ res_y = l[2] /\ samples = l[3]
          /\ scene_file = SceneFile(l, <<>>)
    /\ num_threads \in 1..MaxThreads
    /\ thread_arg = ThreadArg(num_threads)
    /\ out_path = "free"
    /\ out_file = "empty"
    /\ mpc = "spawn" /\ spawned = 0 /\ joined = 0 /\ fill = <<0, 0, 0>>
    /\ queue = <<>> /\ tx_dropped = FALSE
    /\ rx_lock = NoThread /\ colors_lock = NoThread /\ progress_lock = NoThread
    /\ wpc = [w \in Threads |-> "unstarted"]
    /\ wticket = [w \in Threads |-> <<>>]
    /\ wcolor = [w \in Threads |-> 0]
    /\ wslot = [w \in Threads |-> 0]
    /\ colors = [i \in 1..(res_x * res_y) |-> 0]
    /\ progress = Progress_new(TotalWork)
    /\ stdout = <<>>
    /\ data = <<>>
    /\ sent_log = <<>>
    /\ recv_count = [k \in 1..TotalWork |-> 0]
    /\ traced = [i \in 1..(res_x * res_y) |-> [sum |-> 0, n |-> 0]]
    /\ ray = NoRay
    /\ t_min = T_MIN
    /\ t_max = T_MAX
    /\ AabbIdle
    /\ BvhIdle
    /\ ShapeIdle
    /\ TraceIdle

otherVars == <<queryVars, aabbVars, bvhVars, shapeVars, cameraVars, traceVars>>

\* ---- the main thread
\* thread::spawn of one worker; its thread_work may run from here on.
MSpawn ==
    /\ mpc = "spawn"
    /\ spawned < num_threads - 1
    /\ spawned' = spawned + 1
    /\ wpc' = [wpc EXCEPT ![spawned + 1] = "lock_rx"]
    /\ UNCHANGED <<mpc, joined, fill, loadVars, logisticsVars, channelVars, lockVars,
                   wticket, wcolor, wslot, sharedVars, historyVars, otherVars>>

\* The spawn loop ends; the fill loops begin.
MSpawnEnd ==
    /\ mpc = "spawn"
    /\ spawned = num_threads - 1
    /\ mpc' = "fill"
    /\ UNCHANGED <<spawned, joined, fill, loadVars, logisticsVars, channelVars, lockVars,
                   workerVars, sharedVars, historyVars, otherVars>>

\* tx.send((x, y)) in the innermost loop of the fill.
MSend ==
    /\ mpc = "fill"
    /\ ~FillFinished(fill)
    /\ queue' = Append(queue, <<fill[1], fill[2]>>)
    /\ sent_log' = Append(sent_log, <<fill[1], fill[2]>>)
    /\ fill' = FillAdvance(fill)
    /\ UNCHANGED <<mpc, spawned, joined, tx_dropped, loadVars, logisticsVars, lockVars,
                   workerVars, sharedVars, recv_count, traced, otherVars>>

\* drop(tx)
MDrop ==
    /\ mpc = "fill"
    /\ FillFinished(fill)
    /\ tx_dropped' = TRUE
    /\ mpc' = "call_work"
    /\ UNCHANGED <<spawned, joined, fill, queue, loadVars, logisticsVars, lockVars,
                   workerVars, sharedVars, historyVars, otherVars>>

\* The main thread calls thread_work itself, as thread 0.
MThreadWork ==
    /\ mpc = "call_work"
    /\ mpc' = "work"
    /\ wpc' = [wpc EXCEPT ![0] = "lock_rx"]
    /\ UNCHANGED <<spawned, joined, fill, loadVars, logisticsVars, channelVars, lockVars,
                   wticket, wcolor, wslot, sharedVars, historyVars, otherVars>>

\* thread_work returns to main.
MWorkReturn ==
    /\ mpc = "work"
    /\ wpc[0] = "exited"
    /\ mpc' = "join"
    /\ UNCHANGED <<spawned, joined, fill, loadVars, logisticsVars, channelVars, lockVars,
                   workerVars, sharedVars, historyVars, otherVars>>

\* t.join() of the next spawned thread, in spawn order.
MJoin ==
    /\ mpc = "join"
    /\ joined < num_threads - 1
    /\ wpc[joined + 1] = "exited"
    /\ joined' = joined + 1
    /\ UNCHANGED <<mpc, spawned, fill, loadVars, logisticsVars, channelVars, lockVars,
                   workerVars, sharedVars, historyVars, otherVars>>

\* progress_tracker.lock().unwrap().done()
MProgressDone ==
    /\ mpc = "join"
    /\ joined = num_threads - 1
    /\ MutexFree(progress_lock)
    /\ progress' = Progress_done(progress)
    /\ stdout' = Append(stdout, "newline")
    /\ mpc' = "finalize"
    /\ UNCHANGED <<spawned, joined, fill, loadVars, logisticsVars, channelVars, lockVars,
                   workerVars, colors, data, historyVars, otherVars>>

\* colors.lock() and the conversion of every slot into bytes; the lock is
\* held until main returns.
MFinalize ==
    /\ mpc = "finalize"
    /\ MutexFree(colors_lock)
    /\ colors_lock' = 0
    /\ data' = Finalize(0, 0)
    /\ mpc' = "encode"
    /\ UNCHANGED <<spawned, joined, fill, loadVars, logisticsVars, channelVars, rx_lock,
                   progress_lock, workerVars, colors, progress, stdout,
                   historyVars, otherVars>>

\* png_encoder.encode: the bytes reach the output file, or the encoder
\* reports an error and the process exits with status 1.
MEncode ==
    /\ mpc = "encode"
    /\ \E ok \in BOOLEAN :
          IF ok
          THEN out_file' = "image" /\ mpc' = "exit"
          ELSE out_file' = "partial" /\ mpc' = "exit_1"
    /\ UNCHANGED <<thread_arg, scene_file, out_path, spawned, joined, fill,
                   logisticsVars, channelVars, lockVars, workerVars,
                   sharedVars, historyVars, otherVars>>

Main ==
    \/ MSpawn
    \/ MSpawnEnd
    \/ MSend
    \/ MDrop
    \/ MThreadWork
    \/ MWorkReturn
    \/ MJoin
    \/ MProgressDone
    \/ MFinalize
    \/ MEncode

\* ---- thread_work of thread w
\* thread_rx.lock()
WLockRx(w) ==
    /\ wpc[w] = "lock_rx"
    /\ MutexFree(rx_lock)
    /\ rx_lock' = w
    /\ wpc' = [wpc EXCEPT ![w] = "recv"]
    /\ UNCHANGED <<colors_lock, progress_lock, wticket, wcolor, wslot,
                   loadVars, logisticsVars, mainVars, channelVars, sharedVars,
                   historyVars, otherVars>>

\* The ticket at the head of the channel, numbered in the order of the sends.
HeadSerial == (Len(sent_log) - Len(queue)) + 1

\* .iter().next() returns Some((x, y)); the rx guard is dropped.
WRecvSome(w) ==
    /\ wpc[w] = "recv"
    /\ queue # <<>>
    /\ wticket' = [wticket EXCEPT ![w] = Head(queue)]
    /\ queue' = QueueAfterRecv(queue)
    /\ recv_count' = [recv_count EXCEPT ![HeadSerial] = @ + 1]
    /\ rx_lock' = MutexGuard_drop(rx_lock)
    /\ wpc' = [wpc EXCEPT ![w] = "trace"]
    /\ UNCHANGED <<colors_lock, progress_lock, wcolor, wslot, tx_dropped,
                   loadVars, logisticsVars, mainVars, sharedVars, sent_log, traced,
                   otherVars>>

\* .iter().next() returns None: break; the rx guard is dropped.
WRecvNone(w) ==
    /\ wpc[w] = "recv"
    /\ RecvDisconnected(queue, tx_dropped)
    /\ rx_lock' = MutexGuard_drop(rx_lock)
    /\ wpc' = [wpc EXCEPT ![w] = "exited"]
    /\ UNCHANGED <<colors_lock, progress_lock, wticket, wcolor, wslot,
                   loadVars, logisticsVars, mainVars, channelVars, sharedVars,
                   historyVars, otherVars>>

\* camera.get_ray and aggregate::trace(..., 0), with no lock held.
WTrace(w) ==
    /\ wpc[w] = "trace"
    /\ \E c \in TraceVals :
          /\ wcolor' = [wcolor EXCEPT ![w] = c]
          /\ traced' = [traced EXCEPT
                ![AccumulatorIndex(wticket[w][1], wticket[w][2]) + 1] =
                    [sum |-> @.sum + c, n |-> @.n + 1]]
    /\ wpc' = [wpc EXCEPT ![w] = "lock_colors"]
    /\ UNCHANGED <<wticket, wslot, loadVars, logisticsVars, mainVars, channelVars,
                   lockVars, sharedVars, sent_log, recv_count, otherVars>>

\* thread_colors.lock()
WLockColors(w) ==
    /\ wpc[w] = "lock_colors"
    /\ MutexFree(colors_lock)
    /\ colors_lock' = w
    /\ wpc' = [wpc EXCEPT ![w] = "read_slot"]
    /\ UNCHANGED <<rx_lock, progress_lock, wticket, wcolor, wslot,
                   loadVars, logisticsVars, mainVars, channelVars, sharedVars,
                   historyVars, otherVars>>

\* The read of out_colors[(x * res_y) + y].
WReadSlot(w) ==
    /\ wpc[w] = "read_slot"
    /\ wslot' = [wslot EXCEPT
          ![w] = colors[AccumulatorIndex(wticket[w][1], wticket[w][2]) + 1]]
    /\ wpc' = [wpc EXCEPT ![w] = "write_slot"]
    /\ UNCHANGED <<wticket, wcolor, loadVars, logisticsVars, mainVars, channelVars,
                   lockVars, sharedVars, historyVars, otherVars>>

\* The write of out_colors[(x * res_y) + y]; the colors guard is dropped.
WWriteSlot(w) ==
    /\ wpc[w] = "write_slot"
    /\ colors' = [colors EXCEPT
          ![AccumulatorIndex(wticket[w][1], wticket[w][2]) + 1] =
              AccumulatorAdd(wslot[w], wcolor[w])]
    /\ colors_lock' = MutexGuard_drop(colors_lock)
    /\ wpc' = [wpc EXCEPT ![w] = "lock_progress"]
    /\ UNCHANGED <<rx_lock, progress_lock, wticket, wcolor, wslot,
                   loadVars, logisticsVars, mainVars, channelVars, progress, stdout,
                   data, historyVars, otherVars>>

\* thread_progress.lock()
WLockProgress(w) ==
    /\ wpc[w] = "lock_progress"
    /\ MutexFree(progress_lock)
    /\ progress_lock' = w
    /\ wpc' = [wpc EXCEPT ![w] = "update"]
    /\ UNCHANGED <<rx_lock, colors_lock, wticket, wcolor, wslot,
                   loadVars, logisticsVars, mainVars, channelVars, sharedVars,
                   historyVars, otherVars>>

\* .update(1); the progress guard is dropped and the loop starts over.
WUpdate(w) ==
    /\ wpc[w] = "update"
    /\ progress' = Progress_update(progress, 1)[1]
    /\ stdout' = stdout \o Progress_update(progress, 1)[2]
    /\ progress_lock' = MutexGuard_drop(progress_lock)
    /\ wpc' = [wpc EXCEPT ![w] = "lock_rx"]
    /\ UNCHANGED <<rx_lock, colors_lock, wticket, wcolor, wslot,
                   loadVars, logisticsVars, mainVars, channelVars, colors, data,
                   historyVars, otherVars>>

Worker(w) ==
    \/ WLockRx(w)
    \/ WRecvSome(w)
    \/ WRecvNone(w)
    \/ WTrace(w)
    \/ WLockColors(w)
    \/ WReadSlot(w)
    \/ WWriteSlot(w)
    \/ WLockProgress(w)
    \/ WUpdate(w)

Next ==
    \/ Main
    \/ \E w \in Threads : Worker(w)

Spec == Init /\ [][Next]_vars

\* The operating system keeps running some thread that can take a step.
FairSpec == Spec /\ WF_vars(Next)

\* ------------------------------------------- specification: main's start
\* Before it renders main parses the thread count, reads and deserializes
\* the scene file and creates the output file; each step panics on failure.

\* Largest number of shapes of a scene file.
MaxSceneShapes == 2

MaterialKinds == {"Lambert", "Metal", "Dielectric", "DiffuseLight", "Isotropic"}

Material_is_important_Inverted(m) == m \in {"Lambert", "Isotropic"}

Material_is_important(m) == m \in {"Metal", "Dielectric", "DiffuseLight"}

\* The loop of scene::deserialize over the shapes from index i on: one
\* PDF::Shape per shape of an important material, in the order of the list.
RECURSIVE ImportantShapes(_, _)
ImportantShapes(shapes, i) ==
    IF i > Len(shapes)
    THEN <<>>
    ELSE IF Material_is_important(shapes[i])
         THEN <<PDF_Shape(i)>> \o ImportantShapes(shapes, i + 1)
         ELSE ImportantShapes(shapes, i + 1)

\* value_of("thread-count").unwrap_or("2").parse::<u32>(): <<n>> or <<>>.
parse_thread_count(arg) ==
    IF ~arg.given
    THEN <<2>>
    ELSE IF arg.digits
         THEN <<arg.value>>
         ELSE <<>>

create_new_Truncates(path) == path \in {"free", "exists"}

\* OpenOptions::new().write(true).create_new(true).open(path) succeeds only
\* where no file exists yet and one can be created.
create_new(path) == path = "free"

ThreadArgs ==
    {NoArg, [given |-> TRUE, digits |-> FALSE, value |-> 0]}
        \cup {ThreadArg(n) : n \in 0..MaxThreads}

MaterialLists(n) ==
    UNION {[1..k -> MaterialKinds] : k \in 0..n}

SceneFiles(n) ==
    {NoFile,
     [readable |-> TRUE, valid |-> FALSE, logistics |-> <<0, 0, 0>>,
      shapes |-> <<>>]}
        \cup {SceneFile(l, ms) : l \in Logistics, ms \in MaterialLists(n)}

OutPaths == {"free", "exists", "uncreatable"}

\* The process as main starts, given the scene files it may be pointed at.
ProcessStart(files) ==
    /\ thread_arg \in ThreadArgs
    /\ scene_file \in files
    /\ out_path \in OutPaths
    /\ out_file = (IF out_path = "exists" THEN "old" ELSE "absent")
    /\ res_x = 0 /\ res_y = 0 /\ samples = 0 /\ num_threads = 0
    /\ mpc = "thread_count" /\ spawned = 0 /\ joined = 0 /\ fill = <<0, 0, 0>>
    /\ queue = <<>> /\ tx_dropped = FALSE
    /\ rx_lock = NoThread /\ colors_lock = NoThread /\ progress_lock = NoThread
    /\ wpc = <<>> /\ wticket = <<>> /\ wcolor = <<>> /\ wslot = <<>>
    /\ colors = <<>> /\ progress = <<>> /\ stdout = <<>> /\ data = <<>>
    /\ sent_log = <<>> /\ recv_count = <<>> /\ traced = <<>>
    /\ ray = NoRay
    /\ t_min = T_MIN
    /\ t_max = T_MAX
    /\ AabbIdle
    /\ BvhIdle
    /\ ShapeIdle
    /\ TraceIdle

\* The thread count: parse::<u32>().expect(..) and the panic on zero.
MThreadCount ==
    /\ mpc = "thread_count"
    /\ LET parsed == parse_thread_count(thread_arg)
       IN  IF parsed = <<>> \/ parsed = <<0>>
           THEN mpc' = "panic" /\ UNCHANGED num_threads
           ELSE mpc' = "read_scene" /\ num_threads' = parsed[1]
    /\ UNCHANGED <<loadVars, res_x, res_y, samples, spawned, joined, fill,
                   channelVars, lockVars, workerVars, sharedVars, historyVars,
                   otherVars>>

\* fs::read_to_string(&scene_spec_path).expect(..)
MReadScene ==
    /\ mpc = "read_scene"
    /\ mpc' = (IF scene_file.readable THEN "deserialize" ELSE "panic")
    /\ UNCHANGED <<loadVars, logisticsVars, spawned, joined, fill, channelVars,
                   lockVars, workerVars, sharedVars, historyVars, otherVars>>

\* scene::deserialize(..).expect(..): the scene with its important samples.
MDeserialize ==
    /\ mpc = "deserialize"
    /\ IF scene_file.valid
       THEN /\ important_samples' =
                   PDF_Mixture(ImportantShapes(scene_file.shapes, 1))
            /\ mpc' = "create_output"
       ELSE mpc' = "panic" /\ UNCHANGED important_samples
    /\ UNCHANGED <<loadVars, logisticsVars, spawned, joined, fill, channelVars,
                   lockVars, workerVars, sharedVars, historyVars, queryVars,
                   aabbVars, bvhVars, shapeVars, cameraVars, tpc, tdepth, tstack, tvalue,
                   tcalls, tquery, pdf_calls>>

\* The output file: create_new(true) and .expect(..)
MCreateOutput ==
    /\ mpc = "create_output"
    /\ IF create_new(out_path)
       THEN out_file' = "empty" /\ mpc' = "setup"
       ELSE mpc' = "panic" /\ UNCHANGED out_file
    /\ UNCHANGED <<thread_arg, scene_file, out_path, logisticsVars, spawned,
                   joined, fill, channelVars, lockVars, workerVars, sharedVars,
                   historyVars, otherVars>>

\* The logistics of the scene, the accumulator resized to one black slot per
\* pixel, the channel and the progress tracker.
MSetup ==
    /\ mpc = "setup"
    /\ res_x' = scene_file.logistics[1]
    /\ res_y' = scene_file.logistics[2]
    /\ samples' = scene_file.logistics[3]
    /\ LET pixels == scene_file.logistics[1] * scene_file.logistics[2]
           work == pixels * scene_file.logistics[3]
           threads == 0..(num_threads - 1)
       IN  /\ colors' = [i \in 1..pixels |-> 0]
           /\ progress' = Progress_new(work)
           /\ recv_count' = [k \in 1..work |-> 0]
           /\ traced' = [i \in 1..pixels |-> [sum |-> 0, n |-> 0]]
           /\ wpc' = [w \in threads |-> "unstarted"]
           /\ wticket' = [w \in threads |-> <<>>]
           /\ wcolor' = [w \in threads |-> 0]
           /\ wslot' = [w \in threads |-> 0]
    /\ mpc' = "spawn"
    /\ UNCHANGED <<loadVars, num_threads, spawned, joined, fill, channelVars,
                   lockVars, stdout, data, sent_log, otherVars>>

Load ==
    \/ MThreadCount
    \/ MReadScene
    \/ MDeserialize
    \/ MCreateOutput
    \/ MSetup

SpecLoad == ProcessStart(SceneFiles(MaxSceneShapes)) /\ [][Load]_vars

\* The threads that exist are those main has prepared a worker for.
MainNext ==
    \/ Load
    \/ Main
    \/ \E w \in DOMAIN wpc : Worker(w)

\* The whole of main, from the command line to the encoded image, for scene
\* files without shapes.
SpecMain == ProcessStart(SceneFiles(0)) /\ [][MainNext]_vars

\* ------------------------------------- specification: the progress tracker
\* A tracker of any amount of work, updated one unit at a time as thread_work
\* does, once more than there is work, and then closed by done().
MaxTotalWork == 250

ProgressInit ==
    /\ thread_arg = NoArg /\ scene_file = NoFile
    /\ out_path = "free" /\ out_file = "absent"
    /\ res_x = 0 /\ res_y = 0 /\ samples = 0 /\ num_threads = 0
    /\ mpc = "progress" /\ spawned = 0 /\ joined = 0 /\ fill = <<0, 0, 0>>
    /\ queue = <<>> /\ tx_dropped = FALSE
    /\ rx_lock = NoThread /\ colors_lock = NoThread /\ progress_lock = NoThread
    /\ wpc = <<>> /\ wticket = <<>> /\ wcolor = <<>> /\ wslot = <<>>
    /\ colors = <<>> /\ data = <<>>
    /\ \E total \in 1..MaxTotalWork : progress = Progress_new(total)
    /\ stdout = <<>>
    /\ sent_log = <<>> /\ recv_count = <<>> /\ traced = <<>>
    /\ ray = NoRay
    /\ t_min = T_MIN
    /\ t_max = T_MAX
    /\ AabbIdle
    /\ BvhIdle
    /\ ShapeIdle
    /\ TraceIdle

\* update(1); joined counts the calls.
PUpdate ==
    /\ mpc = "progress"
    /\ joined <= progress.total_work
    /\ joined' = joined + 1
    /\ progress' = Progress_update(progress, 1)[1]
    /\ stdout' = stdout \o Progress_update(progress, 1)[2]
    /\ UNCHANGED <<mpc, spawned, fill, loadVars, logisticsVars, channelVars,
                   lockVars, workerVars, colors, data, historyVars, otherVars>>

\* done()
PDone ==
    /\ mpc = "progress"
    /\ progress' = Progress_done(progress)
    /\ stdout' = Append(stdout, "newline")
    /\ mpc' = "progress_done"
    /\ UNCHANGED <<spawned, joined, fill, loadVars, logisticsVars, channelVars,
                   lockVars, workerVars, colors, data, historyVars, otherVars>>

ProgressNext ==
    \/ PUpdate
    \/ PDone

SpecProgress == ProgressInit /\ [][ProgressNext]_vars

\* The completed fraction of tracker p exceeds the fraction last by more than
\* 0.009.
AdvancedBeyondDelta(p, last) ==
    FLt(FAdd(last, <<9, 1000>>), <<p.current_progress, p.total_work>>)

\* C24: a call of update prints a line only when the new completed fraction
\* exceeds the last printed fraction by more than 0.009, and it changes
\* last_update_percentage only when it prints; so each printed line is more
\* than 0.009 beyond the line before.
C24_UpdatePrintsBeyondDelta ==
    [][(mpc = "progress" /\ mpc' = "progress") =>
          /\ Len(stdout') \in {Len(stdout), Len(stdout) + 1}
          /\ Len(stdout') = Len(stdout) + 1 =>
                /\ AdvancedBeyondDelta(progress', progress.last_update_percentage)
                /\ FEq(progress'.last_update_percentage,
                       <<progress'.current_progress, progress'.total_work>>)
          /\ Len(stdout') = Len(stdout) =>
                progress'.last_update_percentage = progress.last_update_percentage]_vars

\* C24 witness: of 250 units of work 5 are done, and the only line printed
\* so far is the one for the third unit (3/250 is the first fraction beyond
\* 0.009; 6/250 is not more than 0.009 beyond it).
C24_Witness ==
    /\ mpc = "progress"
    /\ progress.total_work = 250
    /\ progress.current_progress = 5
    /\ progress.last_update_percentage = <<3, 250>>
    /\ Len(stdout) = 1

\* ------------------------------------------------ claims on the scheduling
Pixels == (0..(res_x - 1)) \X (0..(res_y - 1))

RECURSIVE SumSeq(_)
SumSeq(q) == IF q = <<>> THEN 0 ELSE Head(q) + SumSeq(Tail(q))

Received == SumSeq(recv_count)

Traced == SumSeq([i \in 1..Len(traced) |-> traced[i].n])

\* C5: once main has filled the queue and dropped the sender, exactly
\* `samples` tickets (x, y) were sent for every pixel, no ticket names a
\* pixel outside the image, and res_x * res_y * samples were sent in all.
C5_QueueHoldsEveryTicket ==
    tx_dropped =>
        /\ \A p \in Pixels : CountIn(<<p[1], p[2]>>, sent_log) = samples
        /\ \A i \in 1..Len(sent_log) : <<sent_log[i][1], sent_log[i][2]>> \in Pixels
        /\ Len(sent_log) = res_x * res_y * samples

\* C5 witness: the sender is dropped after four tickets, two for each of
\* two pixels.
C5_Witness ==
    /\ tx_dropped
    /\ samples = 2
    /\ res_y = 2
    /\ sent_log = << <<0, 0>>, <<0, 0>>, <<0, 1>>, <<0, 1>> >>

\* C6: every ticket sent is either still in the channel or was received
\* exactly once; every ticket received is with one worker about to trace it
\* or was traced once; when the workers are done every ticket was received.
C6_EachTicketReceivedOnce ==
    /\ \A k \in 1..Len(sent_log) :
          recv_count[k] + (IF k >= HeadSerial THEN 1 ELSE 0) = 1
    /\ \A k \in (Len(sent_log) + 1)..Len(recv_count) : recv_count[k] = 0
    /\ Received = Traced + Cardinality({w \in Threads : wpc[w] = "trace"})
    /\ mpc \in {"finalize", "encode"} =>
          \A k \in 1..TotalWork : recv_count[k] = 1

\* C6 witness: the two copies of one pixel's ticket are with two workers at
\* once and the channel is empty.
C6_Witness ==
    /\ num_threads = 2
    /\ wpc[0] = "trace"
    /\ wpc[1] = "trace"
    /\ wticket[0] = wticket[1]
    /\ queue = <<>>
    /\ Received = TotalWork

\* C7: when the workers have finished and the finalization reads the
\* accumulator, the slot of every pixel holds the sum of the trace results
\* of exactly the `samples` tickets of that pixel.
C7_SlotIsSumOfSamples ==
    mpc \in {"finalize", "encode"} =>
        \A p \in Pixels :
            /\ traced[AccumulatorIndex(p[1], p[2]) + 1].n = samples
            /\ colors[AccumulatorIndex(p[1], p[2]) + 1] =
                   traced[AccumulatorIndex(p[1], p[2]) + 1].sum

\* C7 witness: two threads rendered two pixels of two samples each; one slot
\* summed two white samples and the bytes were written.
C7_Witness ==
    /\ mpc = "encode"
    /\ num_threads = 2
    /\ res_x = 2
    /\ samples = 2
    /\ colors = <<2, 1>>
    /\ data = <<255, 255, 255, 181, 181, 181>>

\* C8: a worker leaves its loop only when the channel is empty and the
\* sender is dropped, every ticket having been received; and once the
\* sender is dropped every worker loop exits and the joins complete.
C8_WorkersExitAtEndOfQueue ==
    /\ [][\A w \in Threads :
            (wpc[w] # "exited" /\ wpc'[w] = "exited") =>
                /\ queue = <<>>
                /\ tx_dropped
                /\ Received = TotalWork]_vars
    /\ tx_dropped ~>
          /\ \A w \in Threads : wpc[w] = "exited"
          /\ joined = num_threads - 1

\* C8 witness: with two threads and four tickets, both worker loops exited
\* and the spawned thread was joined.
C8_Witness ==
    /\ num_threads = 2
    /\ TotalWork = 4
    /\ wpc[0] = "exited"
    /\ wpc[1] = "exited"
    /\ joined = 1

\* C9 as stated: no worker begins its loop or receives a ticket before the
\* last ticket has been enqueued.
C9_QueueBuiltBeforeWorkersStart ==
    \A w \in Threads : wpc[w] # "unstarted" => Len(sent_log) = TotalWork

\* C9 as amended: the spawned workers are all started before the first
\* ticket is enqueued; only the main thread's own worker loop begins after
\* the last ticket has been enqueued and the sender dropped.
C9_OnlyMainStartsAfterFill ==
    /\ wpc[0] # "unstarted" => (Len(sent_log) = TotalWork /\ tx_dropped)
    /\ sent_log # <<>> =>
          /\ spawned = num_threads - 1
          /\ \A w \in Threads \ {0} : wpc[w] # "unstarted"

\* C9 witness: a spawned worker traces a ticket while main is still filling
\* the queue and has not begun its own worker loop.
C9_Witness ==
    /\ num_threads = 2
    /\ mpc = "fill"
    /\ wpc[0] = "unstarted"
    /\ wpc[1] = "trace"
    /\ Len(sent_log) < TotalWork

\* ------------------------------------------------- claims on main's start
\* The command line or the files it names make the load fail.
LoadFailure ==
    \/ thread_arg.given /\ (~thread_arg.digits \/ thread_arg.value = 0)
    \/ ~scene_file.readable
    \/ ~scene_file.valid
    \/ out_path \in {"exists", "uncreatable"}

RenderingStarted ==
    \/ spawned > 0
    \/ \E w \in DOMAIN wpc : wpc[w] # "unstarted"
    \/ sent_log # <<>>
    \/ queue # <<>>
    \/ data # <<>>
    \/ out_file \in {"image", "partial"}

\* C13: when the thread count is 0 or not a number, the scene file cannot be
\* read or deserialized, or the output path exists or cannot be created,
\* main never gets past its start: it spawns no worker, enqueues no ticket
\* and encodes no image; and an output file that already existed keeps its
\* old content whatever happens.
C13_LoadFailureAbortsBeforeRendering ==
    /\ LoadFailure =>
          /\ ~RenderingStarted
          /\ mpc \in {"thread_count", "read_scene", "deserialize",
                      "create_output", "panic"}
    /\ out_path = "exists" => out_file = "old"

\* C13 witness: every other step succeeded and main has panicked at the
\* creation of an output file that already exists.
C13_Witness ==
    /\ out_path = "exists"
    /\ scene_file.valid
    /\ num_threads = 2
    /\ mpc = "panic"
    /\ out_file = "old"

ImportantIndices ==
    {i \in 1..Len(scene_file.shapes) :
        scene_file.shapes[i] \in {"Metal", "Dielectric", "DiffuseLight"}}

\* C14: once the scene is deserialized, the members of the important-samples
\* Mixture are Shape PDFs, one for each shape of an important material and
\* none for any other, in the order of the shape list; and the Mixture is
\* invalid (empty) exactly when no shape has an important material.
C14_ImportantSamplesFollowShapes ==
    mpc \in {"create_output", "setup", "spawn"} =>
        LET m == important_samples.members
        IN  /\ important_samples.kind = "Mixture"
            /\ Len(m) = Cardinality(ImportantIndices)
            /\ \A k \in 1..Len(m) :
                  /\ m[k].kind = "Shape"
                  /\ m[k].shape \in ImportantIndices
            /\ \A j, k \in 1..Len(m) : j < k => m[j].shape < m[k].shape
            /\ ~PDF_is_valid(important_samples) <=> ImportantIndices = {}

\* C14 witness: a scene of an unimportant shape followed by an important one
\* has been loaded, and the Mixture's only member is the second shape.
C14_Witness ==
    /\ mpc = "spawn"
    /\ scene_file.shapes = <<"Lambert", "Metal">>
    /\ important_samples.members = <<PDF_Shape(2)>>

\* --------------------------------------------------- claims on the locks
\* The mutexes among the queue's, the accumulator's and the progress
\* tracker's that thread w holds.
HeldBy(w) ==
    {m \in {"rx", "colors", "progress"} :
        \/ m = "rx" /\ rx_lock = w
        \/ m = "colors" /\ colors_lock = w
        \/ m = "progress" /\ progress_lock = w}

\* C15: a worker that is computing the camera ray and tracing it holds none
\* of the three mutexes, and no worker ever holds two of them at once.
C15_HotPathHoldsNoLock ==
    \A w \in Threads :
        /\ wpc[w] = "trace" => HeldBy(w) = {}
        /\ Cardinality(HeldBy(w)) <= 1

\* C15 witness: one worker traces a ticket, holding nothing, while the other
\* holds the queue's mutex in recv.
C15_Witness ==
    /\ num_threads = 2
    /\ wpc[1] = "trace"
    /\ HeldBy(1) = {}
    /\ wpc[0] = "recv"
    /\ HeldBy(0) = {"rx"}

\* ------------------------------------------ claims on the progress counter
\* The tickets received by a worker that has not yet reported them.
InFlight ==
    Cardinality({w \in Threads :
        wpc[w] \in {"trace", "lock_colors", "read_slot", "write_slot",
                    "lock_progress", "update"}})

\* C25: until done() is called the progress counter never decreases, grows
\* by exactly 1 with each ticket a worker has finished and by nothing else,
\* never exceeds total_work = res_x * res_y * samples, and equals total_work
\* once all workers have left their loops, whatever the interleaving.
C25_ProgressCountsTickets ==
    /\ [](mpc \in {"spawn", "fill", "call_work", "work", "join"} =>
            /\ progress.total_work = res_x * res_y * samples
            /\ progress.current_progress = Received - InFlight
            /\ progress.current_progress <= progress.total_work
            /\ (\A w \in Threads : wpc[w] = "exited") =>
                  progress.current_progress = progress.total_work)
    /\ [][mpc' \in {"spawn", "fill", "call_work", "work", "join"} =>
            IF \E w \in Threads : wpc[w] = "update" /\ wpc'[w] # "update"
            THEN progress'.current_progress = progress.current_progress + 1
            ELSE progress'.current_progress = progress.current_progress]_vars

\* C25 witness: two threads have processed all four tickets and left their
\* loops; the counter stands at total_work and done() has not been called.
C25_Witness ==
    /\ num_threads = 2
    /\ mpc = "join"
    /\ wpc[0] = "exited"
    /\ wpc[1] = "exited"
    /\ progress.total_work = 4
    /\ progress.current_progress = 4

\* ------------------------------------------ claims on the pixel accumulator
\* The step of worker w that adds its sample to the slot at index i (from 0)
\* and to no other slot.
AddsSampleAt(w, i) ==
    /\ i + 1 \in DOMAIN colors
    /\ colors' = [colors EXCEPT ![i + 1] = colors[i + 1] + wcolor[w]]

\* C26 as the spec has it: the accumulator has res_x * res_y slots and the
\* samples of pixel (x, y) are added to the slot at index y * res_x + x.
C26_RowMajorAccumulator ==
    /\ [](Len(colors) = res_x * res_y)
    /\ [][\A w \in Threads :
            wpc[w] = "write_slot" /\ wpc'[w] # "write_slot" =>
                AddsSampleAt(w, (wticket[w][2] * res_x) + wticket[w][1])]_vars

\* C26 amended: the accumulator has res_x * res_y slots and the samples of
\* pixel (x, y) are added to the slot at index x * res_y + y, so the layout
\* is by columns.
C26_ColumnMajorAccumulator ==
    /\ [](Len(colors) = res_x * res_y)
    /\ [][\A w \in Threads :
            wpc[w] = "write_slot" /\ wpc'[w] # "write_slot" =>
                AddsSampleAt(w, (wticket[w][1] * res_y) + wticket[w][2])]_vars

\* C26 witness: in a 2 x 2 image the one sample of pixel (1, 0), of value 1,
\* has been added and sits in the slot at index 2.
C26_Witness ==
    /\ res_x = 2 /\ res_y = 2
    /\ traced[3].n = 1
    /\ \E w \in Threads : wpc[w] = "lock_progress" /\ wticket[w] = <<1, 0>>
    /\ colors[3] = 1
    /\ colors[2] = 0

\* C27: the index a worker uses for a ticket (x, y) of the image is below
\* res_x * res_y, different pixels have different indices, and after the
\* finalization the three bytes at position 3 * (y * res_x + x) of the
\* output are the bytes of the sum of the samples traced for pixel (x, y).
C27_IndexingSafeAndConsistent ==
    /\ \A p \in Pixels :
          /\ AccumulatorIndex(p[1], p[2]) >= 0
          /\ AccumulatorIndex(p[1], p[2]) < res_x * res_y
          /\ AccumulatorIndex(p[1], p[2]) + 1 \in DOMAIN colors
    /\ \A p, q \in Pixels :
          p # q => AccumulatorIndex(p[1], p[2]) # AccumulatorIndex(q[1], q[2])
    /\ \A w \in Threads :
          wpc[w] \in {"trace", "lock_colors", "read_slot", "write_slot"} =>
              wticket[w] \in Pixels
    /\ mpc \in {"encode", "exit", "exit_1"} =>
          /\ Len(data) = 3 * res_x * res_y
          /\ \A p \in Pixels : \A k \in 1..3 :
                data[(3 * ((p[2] * res_x) + p[1])) + k] =
                    ByteOf(traced[AccumulatorIndex(p[1], p[2]) + 1].sum,
                           samples)

\* C27 witness: a finalized 2 x 2 image of one sample a pixel in which only
\* pixel (1, 0) received light; its bytes are the second triple.
C27_Witness ==
    /\ res_x = 2 /\ res_y = 2 /\ samples = 1
    /\ mpc = "encode"
    /\ traced[AccumulatorIndex(1, 0) + 1].sum = 1
    /\ data = <<0, 0, 0, 255, 255, 255, 0, 0, 0, 0, 0, 0>>

\* ------------------------------------------------ claims on ConstantMedium
FNeg(a) == <<-a[1], a[2]>>

FMax(a, b) == IF FLt(a, b) THEN b ELSE a

FMin(a, b) == IF FLt(b, a) THEN b ELSE a

\* The two boundary hits of the medium asked last: the first on the whole
\* line of the ray, the second behind the first.
BoundaryHit1 == Shape_hit(hit_query.boundary, ray, NInf, F32_MAX)

BoundaryHit2 ==
    Shape_hit(hit_query.boundary, ray, FAdd(BoundaryHit1[1], EPSILON), F32_MAX)

MediumAsked ==
    /\ spc = "done"
    /\ hit_query.kind = "ConstantMedium"
    /\ BoundaryHit1 # None
    /\ BoundaryHit2 # None

\* The segment [max(t1, t_min, 0), min(t2, t_max)] of the claim.
SegmentLow == FMax(FMax(BoundaryHit1[1], t_min), FVal(0))

SegmentHigh == FMin(BoundaryHit2[1], t_max)

SegmentEmpty == FLt(SegmentHigh, SegmentLow)

\* The length of the segment along the ray and the sampled free flight.
SegmentLength ==
    FMul(FAdd(SegmentHigh, FNeg(SegmentLow)), FVal(Vector3_length(ray.dir)))

FreeFlight == FMul(FNeg(hit_ln_xi), FDivInt(1, hit_query.density, FALSE))

\* C28: with boundary hits t1 < t2, ConstantMedium::hit samples the segment
\* [max(t1, t_min, 0), min(t2, t_max)]: it reports a miss when the segment
\* is empty or the sampled free flight is longer than the segment, and
\* otherwise the hit at max(t1, t_min, 0) + distance / |dir|, which lies
\* inside the segment.
C28_MediumClampRule ==
    MediumAsked =>
        /\ FLt(BoundaryHit1[1], BoundaryHit2[1])
        /\ IF SegmentEmpty \/ FGt(FreeFlight, SegmentLength)
           THEN shape_result = None
           ELSE /\ shape_result # None
                /\ FEq(shape_result[1],
                       FAdd(SegmentLow,
                            FMul(FreeFlight,
                                 FDivInt(1, Vector3_length(ray.dir), FALSE))))
                /\ FLe(SegmentLow, shape_result[1])
                /\ FLe(shape_result[1], SegmentHigh)

\* C28 witness: a hit inside a segment whose both ends were clamped.
C28_Witness ==
    /\ MediumAsked
    /\ FLt(BoundaryHit1[1], t_min)
    /\ FLt(t_max, BoundaryHit2[1])
    /\ shape_result # None

\* ------------------------- specification: Matrix4::inverse and Sphere::new
\* Largest entry of the linear part of the matrices inverted.
MaxEntry == 1

FAbs(a) == <<Abs(a[1]), a[2]>>

FSub(a, b) == FAdd(a, FNeg(b))

\* a / b: x / 0 = +-inf (the zero taken as +0), 0 / 0 = NaN, x / inf = 0,
\* inf / inf = NaN.
FDiv(a, b) ==
    IF IsNaN(a) \/ IsNaN(b) THEN NaN
    ELSE IF b[2] = 0 THEN (IF a[2] = 0 THEN NaN ELSE FVal(0))
    ELSE IF b[1] = 0 THEN <<Sign(a[1]), 0>>
    ELSE IF a[2] = 0 THEN <<a[1] * Sign(b[1]), 0>>
    ELSE Norm(<<a[1] * b[2] * Sign(b[1]), a[2] * Abs(b[1])>>)

Rows4 == 1..4

Matrix4_new_identity ==
    [r \in Rows4 |-> [c \in Rows4 |-> IF r = c THEN FVal(1) ELSE FVal(0)]]

\* The matrix of linear part b and translation v, its last row 0 0 0 1.
AffineMatrix(b, v) ==
    [r \in Rows4 |->
        [c \in Rows4 |->
            IF r = 4 THEN (IF c = 4 THEN FVal(1) ELSE FVal(0))
            ELSE IF c = 4 THEN FVal(v[r])
            ELSE FVal(b[r][c])]]

Translations == {<<0, 0, 0>>, <<1, 2, 3>>}

Matrices ==
    {AffineMatrix(b, v) :
        b \in [1..3 -> [1..3 -> 0..MaxEntry]], v \in Translations}

\* for row in 0..4 { if |temp[row][col]| > |temp[big][col]| { big = row } }
RECURSIVE BigRowFrom(_, _, _, _)
BigRowFrom(temp, c, row, big) ==
    IF row > 4 THEN big
    ELSE BigRowFrom(temp, c, row + 1,
                    IF FGt(FAbs(temp[row][c]), FAbs(temp[big][c]))
                    THEN row ELSE big)

BigRow(temp, c) == BigRowFrom(temp, c, 1, c)

\* The swap of rows a and b, entry by entry.
SwapRows(m, a, b) ==
    [r \in Rows4 |-> IF r = a THEN m[b] ELSE IF r = b THEN m[a] ELSE m[r]]

\* coeff = temp[row][col] / temp[col][col]
Coeff(temp, row, c) == FDiv(temp[row][c], temp[c][c])

\* The elimination loop on temp: every row but the pivot row whose coeff is
\* not 0 loses coeff times the pivot row, and its entry in the column is set
\* to 0.
EliminateTemp(temp, c) ==
    [r \in Rows4 |->
        IF r = c \/ FEq(Coeff(temp, r, c), FVal(0)) THEN temp[r]
        ELSE [j \in Rows4 |->
                 IF j = c THEN FVal(0)
                 ELSE FSub(temp[r][j], FMul(Coeff(temp, r, c), temp[c][j]))]]

\* The same loop on res, with the coefficients of temp.
EliminateRes(temp, res, c) ==
    [r \in Rows4 |->
        IF r = c \/ FEq(Coeff(temp, r, c), FVal(0)) THEN res[r]
        ELSE [j \in Rows4 |->
                 FSub(res[r][j], FMul(Coeff(temp, r, c), res[c][j]))]]

Err(e) == [ok |-> FALSE, err |-> e, value |-> <<>>]

Ok(v) == [ok |-> TRUE, err |-> "", value |-> v]

MatrixInit ==
    /\ ray = NoRay
    /\ t_min = T_MIN
    /\ t_max = T_MAX
    /\ AabbIdle
    /\ BvhIdle
    /\ HitIdle
    /\ CameraIdle
    /\ TraceIdle
    /\ SchedIdle
    /\ inv_pc = "sphere_new"
    /\ inv_self \in Matrices
    /\ inv_temp = <<>>
    /\ inv_res = <<>>
    /\ inv_col = 0
    /\ inv_pivots = <<>>
    /\ inverse_result = <<>>
    /\ sphere_new_result = <<>>

\* Sphere::new calls local_to_world.inverse(): temp = self.clone() and
\* res = Matrix4::new_identity().
InverseCall ==
    /\ inv_pc = "sphere_new"
    /\ inv_temp' = inv_self
    /\ inv_res' = Matrix4_new_identity
    /\ inv_col' = 0
    /\ inv_pc' = "column"
    /\ UNCHANGED <<inv_self, inv_pivots, inverse_result, sphere_new_result,
                   spc, hit_query, hit_ln_xi, shape_result, cameraVars,
                   queryVars, aabbVars, bvhVars, traceVars, schedVars>>

\* One pass of `for col in 0..4`: the search of a pivot row when the
\* diagonal entry is 0, the error or the swap, and the elimination.
InverseColumn ==
    /\ inv_pc = "column"
    /\ inv_col < 4
    /\ LET c == inv_col + 1
           zero == FEq(inv_temp[c][c], FVal(0))
           big == BigRow(inv_temp, c)
           temp == IF zero THEN SwapRows(inv_temp, c, big) ELSE inv_temp
           res == IF zero THEN SwapRows(inv_res, c, big) ELSE inv_res
       IN  IF zero /\ big = c
           THEN /\ inverse_result' = Err("Singular matrix")
                /\ inv_pc' = "returned"
                /\ UNCHANGED <<inv_temp, inv_res, inv_col, inv_pivots>>
           ELSE /\ inv_temp' = EliminateTemp(temp, c)
                /\ inv_res' = EliminateRes(temp, res, c)
                /\ inv_col' = inv_col + 1
                /\ inv_pivots' = IF zero
                                 THEN Append(inv_pivots, <<inv_col, big - 1>>)
                                 ELSE inv_pivots
                /\ inv_pc' = IF inv_col + 1 = 4 THEN "divide" ELSE "column"
                /\ UNCHANGED inverse_result
    /\ UNCHANGED <<inv_self, sphere_new_result,
                   spc, hit_query, hit_ln_xi, shape_result, cameraVars,
                   queryVars, aabbVars, bvhVars, traceVars, schedVars>>

\* res.data[row][col] /= temp.data[row][row], and return Ok(res).
InverseDivide ==
    /\ inv_pc = "divide"
    /\ inv_res' = [r \in Rows4 |->
                      [c \in Rows4 |-> FDiv(inv_res[r][c], inv_temp[r][r])]]
    /\ inverse_result' =
          Ok([r \in Rows4 |->
                 [c \in Rows4 |-> FDiv(inv_res[r][c], inv_temp[r][r])]])
    /\ inv_pc' = "returned"
    /\ UNCHANGED <<inv_self, inv_temp, inv_col, inv_pivots, sphere_new_result,
                   spc, hit_query, hit_ln_xi, shape_result, cameraVars,
                   queryVars, aabbVars, bvhVars, traceVars, schedVars>>

\* world_to_local: local_to_world.inverse()?  -- an Err leaves Sphere::new
\* at once, an Ok value becomes the world_to_local of the Sphere.
SphereNewReturn ==
    /\ inv_pc = "returned"
    /\ sphere_new_result' =
          IF inverse_result.ok
          THEN Ok([local_to_world |-> inv_self,
                   world_to_local |-> inverse_result.value])
          ELSE Err(inverse_result.err)
    /\ inv_pc' = "done"
    /\ UNCHANGED <<inv_self, inv_temp, inv_res, inv_col, inv_pivots,
                   inverse_result,
                   spc, hit_query, hit_ln_xi, shape_result, cameraVars,
                   queryVars, aabbVars, bvhVars, traceVars, schedVars>>

MatrixNext ==
    \/ InverseCall
    \/ InverseColumn
    \/ InverseDivide
    \/ SphereNewReturn

SpecMatrix == MatrixInit /\ [][MatrixNext]_vars

\* The determinant of the linear part of the affine matrix m, which is the
\* determinant of m.
Determinant(m) ==
    (m[1][1][1] * ((m[2][2][1] * m[3][3][1]) - (m[2][3][1] * m[3][2][1])))
    - (m[1][2][1] * ((m[2][1][1] * m[3][3][1]) - (m[2][3][1] * m[3][1][1])))
    + (m[1][3][1] * ((m[2][1][1] * m[3][2][1]) - (m[2][2][1] * m[3][1][1])))

Singular(m) == Determinant(m) = 0

\* C29: for a singular matrix inverse returns Err("Singular matrix") and
\* never Ok; a row swapped in as the pivot row of a column has not served as
\* the pivot row of an earlier column; and Sphere::new returns the error, so
\* that no Sphere is built from a singular transform.
C29_SingularMatrixIsAnError ==
    /\ (inv_pc \in {"returned", "done"} /\ Singular(inv_self)) =>
          inverse_result = Err("Singular matrix")
    /\ \A i \in 1..Len(inv_pivots) : inv_pivots[i][2] > inv_pivots[i][1]
    /\ (inv_pc = "done" /\ Singular(inv_self)) =>
          sphere_new_result = Err("Singular matrix")
    /\ (inv_pc = "done" /\ inverse_result = Err("Singular matrix")) =>
          sphere_new_result = Err("Singular matrix")

\* -------------------- specification: thread_work from ticket to get_ray
\* Largest resolution of an axis, and the denominator of the values drawn
\* for rand::random::<f32>(), which lies in [0, 1).
MaxRes == 3

JitterDen == 4

Jitters == {Norm(<<k, JitterDen>>) : k \in 0..(JitterDen - 1)}

\* a - b on u32: the difference, or 2^32 + (a - b) when b > a; the record
\* keeps a - b and whether the subtraction wrapped.
u32_sub(a, b) == [wrapped |-> a < b, value |-> a - b]

CameraInit ==
    /\ thread_arg = NoArg /\ scene_file = NoFile
    /\ out_path = "free" /\ out_file = "absent"
    /\ res_x \in 1..MaxRes /\ res_y \in 1..MaxRes
    /\ samples = 1 /\ num_threads = 1
    /\ mpc = "off" /\ spawned = 0 /\ joined = 0 /\ fill = <<0, 0, 0>>
    /\ queue = <<>> /\ tx_dropped = FALSE
    /\ rx_lock = NoThread /\ colors_lock = NoThread /\ progress_lock = NoThread
    /\ wpc = <<>> /\ wticket = <<>> /\ wcolor = <<>> /\ wslot = <<>>
    /\ colors = <<>> /\ progress = <<>> /\ stdout = <<>> /\ data = <<>>
    /\ sent_log = <<>> /\ recv_count = <<>> /\ traced = <<>>
    /\ ray = NoRay
    /\ t_min = T_MIN
    /\ t_max = T_MAX
    /\ AabbIdle
    /\ BvhIdle
    /\ HitIdle
    /\ MatrixIdle
    /\ TraceIdle
    /\ cam_pc = "recv"
    /\ cam_ticket = <<>>
    /\ cam_sub = <<>>
    /\ cam_u = NaN
    /\ cam_v = NaN

\* The ticket (x, y) the loop received: one of those main sent.
CameraRecv ==
    /\ cam_pc = "recv"
    /\ cam_ticket' \in Pixels
    /\ cam_pc' = "uv"
    /\ UNCHANGED <<cam_sub, cam_u, cam_v, queryVars, aabbVars, bvhVars,
                   spc, hit_query, hit_ln_xi, shape_result, matrixVars,
                   traceVars, schedVars>>

\* u = (x as f32 + rand::random::<f32>()) / res_x as f32
\* v = ((res_y - y) as f32 + rand::random::<f32>()) / res_y as f32
CameraUV ==
    /\ cam_pc = "uv"
    /\ \E ju \in Jitters, jv \in Jitters :
          LET x == cam_ticket[1]
              y == cam_ticket[2]
              diff == u32_sub(res_y, y)
          IN  /\ cam_sub' = diff
              /\ cam_u' = FDiv(FAdd(FVal(x), ju), FVal(res_x))
              /\ cam_v' = FDiv(FAdd(FVal(diff.value), jv), FVal(res_y))
    /\ cam_pc' = "get_ray"
    /\ UNCHANGED <<cam_ticket, queryVars, aabbVars, bvhVars,
                   spc, hit_query, hit_ln_xi, shape_result, matrixVars,
                   traceVars, schedVars>>

\* camera.get_ray(u, v), the trace and the accumulation; the loop goes on to
\* its next ticket.
CameraGetRay ==
    /\ cam_pc = "get_ray"
    /\ cam_pc' = "recv"
    /\ UNCHANGED <<cam_ticket, cam_sub, cam_u, cam_v, queryVars, aabbVars,
                   bvhVars, spc, hit_query, hit_ln_xi, shape_result,
                   matrixVars, traceVars, schedVars>>

CameraNext ==
    \/ CameraRecv
    \/ CameraUV
    \/ CameraGetRay

SpecCamera == CameraInit /\ [][CameraNext]_vars

\* C30: the coordinates handed to camera.get_ray for a ticket of the image
\* and jitters in [0, 1) satisfy 0 <= u <= 1 and 0 <= v <= 1, and the
\* unsigned subtraction res_y - y has not wrapped.
C30_ImagePlaneCoordinatesInside ==
    cam_pc = "get_ray" =>
        /\ FLe(FVal(0), cam_u) /\ FLe(cam_u, FVal(1))
        /\ FLe(FVal(0), cam_v) /\ FLe(cam_v, FVal(1))
        /\ ~cam_sub.wrapped

====
